---- MODULE Spec2Model ----
(***************************************************************************)
(* kube-cel: compilation of x-kubernetes-validations rules and the schema  *)
(* walking validator (src/src/compilation.rs, src/src/validation.rs,       *)
(* src/src/values.rs).                                                     *)
(*                                                                         *)
(* JSON documents (schemas, objects) are tagged records; the CEL engine    *)
(* the crate calls into is modelled by a small expression language with    *)
(* the engine's three entry points: Program::compile, references() and     *)
(* execute().                                                              *)
(***************************************************************************)
EXTENDS Integers, Sequences, FiniteSets, TLC

VARIABLES schema, object, old_object, compiled, errors, evals, errors_c, evals_c,
          calls, overflow_checks, cel, cel_schema, duration, expression,
          outcome, displayed

\* What the extension functions and the Display of an error work with: an
\* expression, the result of its execution, and the text of an error
extension_vars == <<expression, outcome, displayed>>

\* What the conversions of values.rs work with: the build profile and the
\* results of json_to_cel, json_to_cel_with_schema and parse_go_duration
values_vars == <<overflow_checks, cel, cel_schema, duration, extension_vars>>

\* What the validator works with
validator_vars == <<compiled, errors, evals, errors_c, evals_c, calls>>

vars == <<schema, object, old_object, compiled, errors, evals, errors_c, evals_c,
          calls, values_vars>>

----------------------------------------------------------------------------
(* Bounds of the input universe *)

MaxLen == 2

----------------------------------------------------------------------------
(* Option<T> and Result<T, E> *)

None == [some |-> FALSE]
Some(x) == [some |-> TRUE, val |-> x]

Ok(x) == [ok |-> TRUE, val |-> x]
Err(e) == [ok |-> FALSE, err |-> e]

----------------------------------------------------------------------------
(* serde_json::Value *)

JNull == [t |-> "null"]
JBool(b) == [t |-> "bool", v |-> b]
JNum(n) == [t |-> "num", v |-> n]
JStr(s) == [t |-> "str", v |-> s]
JArr(s) == [t |-> "arr", v |-> s]
JObj(f) == [t |-> "obj", v |-> f]

EmptyMap == [k \in {} |-> JNull]

\* serde_json::Value::get with a string index: Some only on an object
\* that holds the key.
Get(v, key) ==
    IF v.t = "obj" /\ key \in DOMAIN v.v THEN Some(v.v[key]) ELSE None

\* Mutation: a stored null is taken for a missing key.
OptGet_NullAbsent(o, key) ==
    IF o.some /\ o.val.t = "obj" /\ key \in DOMAIN o.val.v
          /\ o.val.v[key].t # "null"
    THEN Some(o.val.v[key]) ELSE None

\* Option::and_then(|o| o.get(key))
OptGet(o, key) == IF o.some THEN Get(o.val, key) ELSE None

\* Mutation: an index past the end of the old array falls back to its last
\* element.
OptIndex_Clamped(o, i) ==
    IF o.some /\ o.val.t = "arr" /\ Len(o.val.v) > 0
    THEN Some(o.val.v[IF i < Len(o.val.v) THEN i + 1 ELSE Len(o.val.v)])
    ELSE None

\* Option::and_then(|o| o.as_array()).and_then(|a| a.get(i)), i counted from 0
OptIndex(o, i) ==
    IF o.some /\ o.val.t = "arr" /\ i < Len(o.val.v)
    THEN Some(o.val.v[i + 1]) ELSE None

\* The property names of the model, listed in the order a serde_json::Map
\* (a BTreeMap) iterates them.
KeysSorted == <<"", "a", "b">>
Keys == {"a", "b"}

SortedKeys(S) == SelectSeq(KeysSorted, LAMBDA k : k \in S)

\* The iteration orders a std HashMap over the key set S can have.
Perms(S) ==
    {p \in [1..Cardinality(S) -> S] : \A k \in S : \E i \in DOMAIN p : p[i] = k}

----------------------------------------------------------------------------
(* Wide arithmetic.  The numbers of values.rs are 64 bits wide (u64, i64,  *)
(* and the 53-bit significand of f64); a natural number is held here as    *)
(* the sequence of its digits in base 2^15, least significant first, with  *)
(* no leading zero digit: << >> is zero.                                   *)

RECURSIVE BigNorm(_)
BigNorm(x) ==
    IF x = << >> THEN x
    ELSE IF x[Len(x)] = 0 THEN BigNorm(SubSeq(x, 1, Len(x) - 1))
    ELSE x

\* The natural number n, below 2^31
BigOf(n) ==
    IF n = 0 THEN << >>
    ELSE IF n < 32768 THEN <<n>>
    ELSE IF n < 1073741824 THEN <<n % 32768, n \div 32768>>
    ELSE <<n % 32768, (n \div 32768) % 32768, n \div 1073741824>>

BigDigit(x, i) == IF i <= Len(x) THEN x[i] ELSE 0

\* -1, 0 or 1 as x is below, equal to or above y
RECURSIVE BigCmpFrom(_, _, _)
BigCmpFrom(x, y, i) ==
    IF i = 0 THEN 0
    ELSE IF x[i] < y[i] THEN -1
    ELSE IF x[i] > y[i] THEN 1
    ELSE BigCmpFrom(x, y, i - 1)

BigCmp(x, y) ==
    IF Len(x) < Len(y) THEN -1
    ELSE IF Len(x) > Len(y) THEN 1
    ELSE BigCmpFrom(x, y, Len(x))

BigLe(x, y) == BigCmp(x, y) <= 0
BigLt(x, y) == BigCmp(x, y) < 0

RECURSIVE BigAddFrom(_, _, _, _, _)
BigAddFrom(x, y, i, carry, acc) ==
    IF Len(acc) = i - 1 /\ i > Len(x) /\ i > Len(y)
    THEN IF carry = 0 THEN acc ELSE Append(acc, carry)
    ELSE LET t == BigDigit(x, i) + BigDigit(y, i) + carry IN
         BigAddFrom(x, y, i + 1, t \div 32768, Append(acc, t % 32768))

BigAdd(x, y) == BigAddFrom(x, y, 1, 0, << >>)

\* x - y, for y <= x
RECURSIVE BigSubFrom(_, _, _, _, _)
BigSubFrom(x, y, i, borrow, acc) ==
    IF Len(acc) = i - 1 /\ i > Len(x) THEN BigNorm(acc)
    ELSE LET t == x[i] - BigDigit(y, i) - borrow IN
         BigSubFrom(x, y, i + 1, IF t < 0 THEN 1 ELSE 0,
                    Append(acc, IF t < 0 THEN t + 32768 ELSE t))

BigSub(x, y) == BigSubFrom(x, y, 1, 0, << >>)

\* x * d, for d below 2^15
RECURSIVE BigMulSmallFrom(_, _, _, _, _)
BigMulSmallFrom(x, d, i, carry, acc) ==
    IF Len(acc) = i - 1 /\ i > Len(x)
    THEN BigNorm(IF carry = 0 THEN acc ELSE Append(acc, carry))
    ELSE LET t == x[i] * d + carry IN
         BigMulSmallFrom(x, d, i + 1, t \div 32768, Append(acc, t % 32768))

BigMulSmall(x, d) == BigMulSmallFrom(x, d, 1, 0, << >>)

\* x * 2^(15 * n)
BigShiftDigits(x, n) ==
    IF x = << >> THEN x ELSE [i \in 1..n |-> 0] \o x

RECURSIVE BigMulFrom(_, _, _, _)
BigMulFrom(x, y, i, acc) ==
    IF Len(acc) <= Len(x) + i /\ i > Len(y) THEN acc
    ELSE BigMulFrom(x, y, i + 1,
             BigAdd(acc, BigShiftDigits(BigMulSmall(x, y[i]), i - 1)))

BigMul(x, y) == BigMulFrom(x, y, 1, << >>)

\* Quotient and remainder of x by d, for 0 < d below 2^15
RECURSIVE BigDivSmallFrom(_, _, _, _, _)
BigDivSmallFrom(x, d, i, rem, acc) ==
    IF Len(acc) = Len(x) - i /\ i = 0 THEN [q |-> BigNorm(acc), r |-> rem]
    ELSE LET t == rem * 32768 + x[i] IN
         BigDivSmallFrom(x, d, i - 1, t % d, <<t \div d>> \o acc)

BigDivSmall(x, d) == BigDivSmallFrom(x, d, Len(x), 0, << >>)

\* x * 2^n and the integer part of x / 2^n
BigShl(x, n) == BigShiftDigits(BigMulSmall(x, 2 ^ (n % 15)), n \div 15)

BigShr(x, n) ==
    IF n \div 15 >= Len(x) THEN << >>
    ELSE BigDivSmall(SubSeq(x, n \div 15 + 1, Len(x)), 2 ^ (n % 15)).q

\* The number of binary digits of x
BigBitLen(x) ==
    IF x = << >> THEN 0
    ELSE 15 * (Len(x) - 1)
         + (CHOOSE b \in 1..15 : 2 ^ (b - 1) <= x[Len(x)] /\ x[Len(x)] < 2 ^ b)

BigIsOdd(x) == x # << >> /\ x[1] % 2 = 1

\* The number of trailing zero binary digits of x # 0
RECURSIVE BigTrailingZeros(_)
BigTrailingZeros(x) ==
    IF x[1] = 0 THEN 15 + BigTrailingZeros(Tail(x))
    ELSE CHOOSE b \in 0..14 : x[1] % (2 ^ b) = 0 /\ (x[1] \div (2 ^ b)) % 2 = 1

\* The decimal digits of a text, as a number
DigitValue(c) ==
    CASE c = "0" -> 0 [] c = "1" -> 1 [] c = "2" -> 2 [] c = "3" -> 3
      [] c = "4" -> 4 [] c = "5" -> 5 [] c = "6" -> 6 [] c = "7" -> 7
      [] c = "8" -> 8 [] c = "9" -> 9

Digits == {"0", "1", "2", "3", "4", "5", "6", "7", "8", "9"}

CharAt(s, i) == SubSeq(s, i, i)

StartsWith(s, pre) == Len(pre) <= Len(s) /\ SubSeq(s, 1, Len(pre)) = pre

\* The number that up to four decimal digits write
RECURSIVE SmallOfDecimal(_)
SmallOfDecimal(s) ==
    IF s = "" THEN 0
    ELSE 10 * SmallOfDecimal(SubSeq(s, 1, Len(s) - 1))
         + DigitValue(CharAt(s, Len(s)))

\* The number that the decimal digits s write, read four digits at a time
RECURSIVE BigOfDecimal(_)
BigOfDecimal(s) ==
    IF Len(s) <= 4 THEN BigOf(SmallOfDecimal(s))
    ELSE BigAdd(BigMulSmall(BigOfDecimal(SubSeq(s, 1, Len(s) - 4)), 10000),
                BigOf(SmallOfDecimal(SubSeq(s, Len(s) - 3, Len(s)))))

\* The decimal text of a number
RECURSIVE BigToDecimal(_)
BigToDecimal(x) ==
    IF x = << >> THEN "0"
    ELSE LET d == BigDivSmall(x, 10) IN
         IF d.q = << >> THEN ToString(d.r)
         ELSE BigToDecimal(d.q) \o ToString(d.r)


----------------------------------------------------------------------------
(* f64 and i64.  A finite f64 is [neg, m, e], the number m * 2^e with m    *)
(* odd and below 2^53 (m = 0 and e = 0 for zero); the numbers of the model *)
(* stay far inside the exponent range of the type.  An i64 is [neg, mag].  *)

F64Canon(neg, m, e) ==
    IF m = << >> THEN [neg |-> neg, m |-> m, e |-> 0]
    ELSE LET tz == BigTrailingZeros(m) IN
         [neg |-> neg, m |-> BigShr(m, tz), e |-> e + tz]

\* The f64 nearest to m * 2^e, ties to the even significand
F64Round(neg, m, e) ==
    IF BigBitLen(m) <= 53 THEN F64Canon(neg, m, e)
    ELSE LET sh == BigBitLen(m) - 53
             q == BigShr(m, sh)
             rem == BigSub(m, BigShl(q, sh))
             c == BigCmp(rem, BigShl(BigOf(1), sh - 1))
             up == c > 0 \/ (c = 0 /\ BigIsOdd(q))
         IN  F64Canon(neg, IF up THEN BigAdd(q, BigOf(1)) ELSE q, e + sh)

\* The integer part of x / 10^k, and whether a remainder was dropped
RECURSIVE DivPow10(_, _)
DivPow10(x, k) ==
    IF k = 0 THEN [q |-> x, inexact |-> FALSE]
    ELSE LET d == BigDivSmall(x, 10)
             r == DivPow10(d.q, k - 1)
         IN  [q |-> r.q, inexact |-> r.inexact \/ d.r # 0]

\* The f64 nearest to d / 10^k: the quotient is taken with more than two
\* binary digits beyond the significand and a last digit that records a
\* dropped remainder, then rounded
F64OfDecimal(d, k) ==
    IF d = << >> \/ k = 0 THEN F64Round(FALSE, d, 0)
    ELSE LET s == 55 + 4 * k
             quot == DivPow10(BigShl(d, s), k)
         IN  F64Round(FALSE,
                      BigAdd(BigShl(quot.q, 1),
                             IF quot.inexact THEN BigOf(1) ELSE << >>),
                      0 - (s + 1))

\* <i64> as f64
F64OfI64(x) == F64Round(x.neg, x.mag, 0)

\* a * b
F64Mul(a, b) == F64Round(a.neg # b.neg, BigMul(a.m, b.m), a.e + b.e)

\* The magnitude of a.trunc()
F64TruncMag(a) == IF a.e >= 0 THEN BigShl(a.m, a.e) ELSE BigShr(a.m, 0 - a.e)

Two63 == BigShl(BigOf(1), 63)
Two64 == BigShl(BigOf(1), 64)
I64Max == [neg |-> FALSE, mag |-> BigSub(Two63, BigOf(1))]
I64Min == [neg |-> TRUE, mag |-> Two63]
I64Zero == [neg |-> FALSE, mag |-> << >>]

\* An integer as sign and magnitude, zero without a sign
Signed(neg, mag) == [neg |-> neg /\ mag # << >>, mag |-> mag]

\* The i64 of a small integer
I64Of(n) == IF n < 0 THEN Signed(TRUE, BigOf(0 - n)) ELSE Signed(FALSE, BigOf(n))

\* <f64> as i64: the truncated value, saturating at the ends of the range
F64AsI64(a) ==
    LET mag == F64TruncMag(a) IN
    IF a.neg THEN IF BigLt(Two63, mag) THEN I64Min ELSE Signed(TRUE, mag)
    ELSE IF BigLt(I64Max.mag, mag) THEN I64Max ELSE Signed(FALSE, mag)

\* The sum of two integers
SignedAdd(a, b) ==
    IF a.neg = b.neg THEN Signed(a.neg, BigAdd(a.mag, b.mag))
    ELSE IF BigLe(b.mag, a.mag) THEN Signed(a.neg, BigSub(a.mag, b.mag))
    ELSE Signed(b.neg, BigSub(b.mag, a.mag))

InI64(v) == IF v.neg THEN BigLe(v.mag, Two63) ELSE BigLe(v.mag, I64Max.mag)

\* The i64 that is congruent modulo 2^64 to an integer out of the range by
\* less than 2^64
I64Wrap(v) == IF InI64(v) THEN v ELSE Signed(~v.neg, BigSub(Two64, v.mag))


----------------------------------------------------------------------------
(* cel::Value and json_to_cel (src/src/values.rs) *)

CNull == [ct |-> "Null"]
CBool(b) == [ct |-> "Bool", cv |-> b]
CInt(i) == [ct |-> "Int", cv |-> i]
CUInt(u) == [ct |-> "UInt", cv |-> u]
CFloat(f) == [ct |-> "Float", cv |-> f]
CString(s) == [ct |-> "String", cv |-> s]
CList(s) == [ct |-> "List", cv |-> s]
CMap(f) == [ct |-> "Map", cv |-> f]
CTimestamp(t) == [ct |-> "Timestamp", cv |-> t]
CDuration(d) == [ct |-> "Duration", cv |-> d]

\* A conversion that does not return: the thread panics
CPanic == [ct |-> "panic"]

\* serde_json::Number: a u64 that is not negative, a negative i64, or a
\* finite f64
PosInt(u) == [n |-> "PosInt", u |-> u]
NegInt(mag) == [n |-> "NegInt", mag |-> mag]
Float(f) == [n |-> "Float", f |-> f]

\* A JSON number of any of the three kinds; JNum(i) is the integer i of
\* at most 31 bits
JNumber(n) == [t |-> "num", n |-> n]

NumberOf(value) ==
    IF "v" \in DOMAIN value
    THEN IF value.v >= 0 THEN PosInt(BigOf(value.v))
         ELSE NegInt(BigOf(0 - value.v))
    ELSE value.n

\* Number::as_i64, Number::as_u64, Number::as_f64
as_i64(n) ==
    IF n.n = "PosInt"
    THEN IF BigLe(n.u, I64Max.mag) THEN Some(Signed(FALSE, n.u)) ELSE None
    ELSE IF n.n = "NegInt" THEN Some(Signed(TRUE, n.mag))
    ELSE None

as_u64(n) == IF n.n = "PosInt" THEN Some(n.u) ELSE None

as_f64(n) ==
    IF n.n = "PosInt" THEN Some(F64Round(FALSE, n.u, 0))
    ELSE IF n.n = "NegInt" THEN Some(F64Round(TRUE, n.mag, 0))
    ELSE Some(n.f)

\* The payload of Value::Int: a TLA+ integer for an i64 of at most 30
\* binary digits, its sign and magnitude for a wider one
IntValue(v) ==
    IF Len(v.mag) = 0 THEN 0
    ELSE IF Len(v.mag) = 1 THEN (IF v.neg THEN 0 - v.mag[1] ELSE v.mag[1])
    ELSE IF Len(v.mag) = 2
    THEN (IF v.neg THEN -1 ELSE 1) * (v.mag[1] + 32768 * v.mag[2])
    ELSE v

\* Mutation: as_u64 is tried first.
convert_number_UnsignedFirst(n) ==
    LET u == as_u64(n) IN
    IF u.some THEN CUInt(u.val)
    ELSE LET i == as_i64(n) IN
         IF i.some THEN CInt(IntValue(i.val)) ELSE CFloat(as_f64(n).val)

convert_number(n) ==
    LET i == as_i64(n) IN
    IF i.some THEN CInt(IntValue(i.val))
    ELSE LET u == as_u64(n) IN
         IF u.some THEN CUInt(u.val) ELSE CFloat(as_f64(n).val)

RECURSIVE json_to_cel(_)
json_to_cel(value) ==
    CASE value.t = "null" -> CNull
      [] value.t = "bool" -> CBool(value.v)
      [] value.t = "num" -> convert_number(NumberOf(value))
      [] value.t = "str" -> CString(value.v)
      [] value.t = "arr" ->
            CList([i \in DOMAIN value.v |-> json_to_cel(value.v[i])])
      [] value.t = "obj" ->
            CMap([k \in DOMAIN value.v |-> json_to_cel(value.v[k])])

----------------------------------------------------------------------------
(* parse_go_duration (src/src/values.rs) *)

\* <str as FromStr for f64>::from_str on a text of ASCII digits and '.':
\* digits with at most one '.', at least one digit
ParseF64(num_str) ==
    LET dots == {i \in 1..Len(num_str) : CharAt(num_str, i) = "."} IN
    IF Cardinality(dots) > 1 \/ Len(num_str) = Cardinality(dots) THEN None
    ELSE IF dots = {} THEN Some(F64OfDecimal(BigOfDecimal(num_str), 0))
    ELSE LET dot == CHOOSE i \in dots : TRUE IN
         Some(F64OfDecimal(
                  BigOfDecimal(SubSeq(num_str, 1, dot - 1)
                               \o SubSeq(num_str, dot + 1, Len(num_str))),
                  Len(num_str) - dot))

\* remaining.find(|c| !c.is_ascii_digit() && c != '.').unwrap_or(0)
NumEnd(remaining) ==
    LET stops == {i \in 1..Len(remaining) :
                     CharAt(remaining, i) \notin Digits \cup {"."}}
    IN  IF stops = {} THEN 0
        ELSE (CHOOSE i \in stops : \A j \in stops : i <= j) - 1

\* The unit suffix at the start of a text: (unit_nanos, unit_len)
UnitOf(remaining) ==
    IF StartsWith(remaining, "ms")
    THEN Some([unit_nanos |-> BigOf(1000000), unit_len |-> 2])
    ELSE IF StartsWith(remaining, "us")
    THEN Some([unit_nanos |-> BigOf(1000), unit_len |-> 2])
    ELSE IF StartsWith(remaining, "ns")
    THEN Some([unit_nanos |-> BigOf(1), unit_len |-> 2])
    ELSE IF StartsWith(remaining, "h")
    THEN Some([unit_nanos |-> BigMul(BigOf(3600), BigOf(1000000000)),
               unit_len |-> 1])
    ELSE IF StartsWith(remaining, "m")
    THEN Some([unit_nanos |-> BigMul(BigOf(60), BigOf(1000000000)),
               unit_len |-> 1])
    ELSE IF StartsWith(remaining, "s")
    THEN Some([unit_nanos |-> BigOf(1000000000), unit_len |-> 1])
    ELSE None

\* The outcomes of parse_go_duration: None, Some(duration), or a panic
NoDuration == [kind |-> "None"]
SomeDuration(nanos) == [kind |-> "Some", nanos |-> nanos]
Panic == [kind |-> "panic"]

\* negation and return
FinishDuration(total_nanos, negative, checked) ==
    IF negative /\ total_nanos = I64Min
    THEN IF checked THEN Panic ELSE SomeDuration(I64Min)
    ELSE SomeDuration(IF negative
                      THEN Signed(~total_nanos.neg, total_nanos.mag)
                      ELSE total_nanos)

RECURSIVE DurationLoop(_, _, _, _, _)
\* while !remaining.is_empty() { ... }, then the negation and the return.
\* total_nanos += ... overflows an i64: a panic where the build checks
\* overflow, a wrapped sum where it does not.
DurationLoop(remaining, total_nanos, parsed_any, negative, checked) ==
    IF remaining = ""
    THEN IF ~parsed_any THEN NoDuration
         ELSE FinishDuration(total_nanos, negative, checked)
    ELSE
    LET num_end == NumEnd(remaining)
        num == ParseF64(SubSeq(remaining, 1, num_end))
        rest == SubSeq(remaining, num_end + 1, Len(remaining))
        unit == UnitOf(rest)
    IN  IF num_end = 0 \/ ~num.some \/ ~unit.some THEN NoDuration
        ELSE
        LET term == F64AsI64(F64Mul(num.val,
                        F64OfI64(Signed(FALSE, unit.val.unit_nanos))))
            sum == SignedAdd(total_nanos, term)
        IN  IF ~InI64(sum) /\ checked THEN Panic
            ELSE DurationLoop(
                     SubSeq(rest, unit.val.unit_len + 1, Len(rest)),
                     I64Wrap(sum), TRUE, negative, checked)

parse_go_duration(input, checked) ==
    LET negative == StartsWith(input, "-")
        rest == IF negative THEN SubSeq(input, 2, Len(input)) ELSE input
    IN  IF rest = "0" THEN SomeDuration(I64Zero)
        ELSE DurationLoop(rest, I64Zero, FALSE, negative, checked)

\* The decimal text of an i64
I64ToDecimal(v) == (IF v.neg THEN "-" ELSE "") \o BigToDecimal(v.mag)


----------------------------------------------------------------------------
(* chrono::DateTime::parse_from_rfc3339: date-time of RFC 3339,            *)
(*   YYYY-MM-DD ("T" | "t" | " ") hh:mm:ss [.fraction] ("Z" | "z" |        *)
(*   ("+" | "-") hh:mm)                                                    *)
(* A DateTime<FixedOffset> is its instant, as the day since 1970-01-01,    *)
(* the second of that day and the nanosecond of that second in UTC, and    *)
(* its offset in seconds.                                                  *)

AllDigits(s) == \A i \in 1..Len(s) : CharAt(s, i) \in Digits

IsLeapYear(y) == y % 4 = 0 /\ (y % 100 # 0 \/ y % 400 = 0)

DaysInMonth(y, m) ==
    IF m = 2 THEN (IF IsLeapYear(y) THEN 29 ELSE 28)
    ELSE IF m \in {4, 6, 9, 11} THEN 30 ELSE 31

\* The day number of a date of the proleptic Gregorian calendar
DaysFromCivil(y, m, d) ==
    LET yy == IF m <= 2 THEN y - 1 ELSE y
        era == yy \div 400
        yoe == yy - era * 400
        doy == (153 * (IF m > 2 THEN m - 3 ELSE m + 9) + 2) \div 5 + d - 1
        doe == yoe * 365 + yoe \div 4 - yoe \div 100 + doy
    IN  era * 146097 + doe - 719468

\* The nanoseconds that the digits of a fraction write: the first nine count
FractionNanos(digits) ==
    LET nine == SubSeq(digits \o "000000000", 1, 9) IN
    SmallOfDecimal(SubSeq(nine, 1, 4)) * 100000
        + SmallOfDecimal(SubSeq(nine, 5, 9))

\* The offset that the end of the text writes, in seconds
ParseOffset(s) ==
    IF s \in {"Z", "z"} THEN Some(0)
    ELSE IF /\ Len(s) = 6
            /\ CharAt(s, 1) \in {"+", "-"}
            /\ AllDigits(SubSeq(s, 2, 3))
            /\ CharAt(s, 4) = ":"
            /\ AllDigits(SubSeq(s, 5, 6))
            /\ SmallOfDecimal(SubSeq(s, 2, 3)) <= 23
            /\ SmallOfDecimal(SubSeq(s, 5, 6)) <= 59
    THEN Some((IF CharAt(s, 1) = "-" THEN -1 ELSE 1)
              * (SmallOfDecimal(SubSeq(s, 2, 3)) * 3600
                 + SmallOfDecimal(SubSeq(s, 5, 6)) * 60))
    ELSE None

parse_from_rfc3339(s) ==
    IF ~(/\ Len(s) >= 20
         /\ AllDigits(SubSeq(s, 1, 4)) /\ CharAt(s, 5) = "-"
         /\ AllDigits(SubSeq(s, 6, 7)) /\ CharAt(s, 8) = "-"
         /\ AllDigits(SubSeq(s, 9, 10)) /\ CharAt(s, 11) \in {"T", "t", " "}
         /\ AllDigits(SubSeq(s, 12, 13)) /\ CharAt(s, 14) = ":"
         /\ AllDigits(SubSeq(s, 15, 16)) /\ CharAt(s, 17) = ":"
         /\ AllDigits(SubSeq(s, 18, 19)))
    THEN None
    ELSE
    LET y == SmallOfDecimal(SubSeq(s, 1, 4))
        mo == SmallOfDecimal(SubSeq(s, 6, 7))
        d == SmallOfDecimal(SubSeq(s, 9, 10))
        h == SmallOfDecimal(SubSeq(s, 12, 13))
        mi == SmallOfDecimal(SubSeq(s, 15, 16))
        sec == SmallOfDecimal(SubSeq(s, 18, 19))
        tail == SubSeq(s, 20, Len(s))
        stops == {i \in 2..Len(tail) : CharAt(tail, i) \notin Digits}
        frac_end == IF CharAt(tail, 1) # "." THEN 0
                    ELSE IF stops = {} THEN Len(tail)
                    ELSE (CHOOSE i \in stops : \A j \in stops : i <= j) - 1
        offset == ParseOffset(SubSeq(tail, frac_end + 1, Len(tail)))
    IN  IF \/ mo \notin 1..12
           \/ d \notin 1..DaysInMonth(y, mo)
           \/ h > 23 \/ mi > 59 \/ sec > 60
           \/ frac_end = 1
           \/ ~offset.some
        THEN None
        ELSE
        LET local == h * 3600 + mi * 60 + (IF sec = 60 THEN 59 ELSE sec)
            utc == local - offset.val
            day == DaysFromCivil(y, mo, d) + (utc \div 86400)
        IN  Some([day |-> day,
                  sec |-> utc % 86400,
                  nano |-> (IF frac_end = 0 THEN 0
                            ELSE FractionNanos(SubSeq(tail, 2, frac_end)))
                           + (IF sec = 60 THEN 1000000000 ELSE 0),
                  offset |-> offset.val])

\* a is before b or at the same instant (a <= b of DateTime)
InstantLe(a, b) ==
    \/ a.day < b.day
    \/ a.day = b.day /\ a.sec < b.sec
    \/ a.day = b.day /\ a.sec = b.sec /\ a.nano <= b.nano

SameInstant(a, b) == a.day = b.day /\ a.sec = b.sec /\ a.nano = b.nano


----------------------------------------------------------------------------
(* The format-aware conversion (src/src/values.rs) *)

\* SchemaFormat::from_schema
from_schema(sch) ==
    LET f == Get(sch, "format") IN
    IF f.some /\ f.val.t = "str" /\ f.val.v = "date-time" THEN "DateTime"
    ELSE IF f.some /\ f.val.t = "str" /\ f.val.v = "duration" THEN "Duration"
    ELSE "None"

convert_string_with_format(s, format, checked) ==
    IF format = "DateTime"
    THEN IF parse_from_rfc3339(s).some
         THEN CTimestamp(parse_from_rfc3339(s).val) ELSE CString(s)
    ELSE IF format = "Duration"
    THEN LET d == parse_go_duration(s, checked) IN
         IF d.kind = "panic" THEN CPanic
         ELSE IF d.kind = "Some" THEN CDuration(d.nanos) ELSE CString(s)
    ELSE CString(s)

\* A list or a map of converted members; a member whose conversion panics
\* takes the whole conversion with it
CListOf(items) ==
    IF \E i \in DOMAIN items : items[i] = CPanic THEN CPanic ELSE CList(items)

CMapOf(members) ==
    IF \E k \in DOMAIN members : members[k] = CPanic THEN CPanic
    ELSE CMap(members)

\* Mutation: the members and elements of a node are converted under the
\* format and the schema of the node.
RECURSIVE json_to_cel_inner_Inherited(_, _, _, _)
json_to_cel_inner_Inherited(value, format, raw_schema, checked) ==
    CASE value.t = "null" -> CNull
      [] value.t = "bool" -> CBool(value.v)
      [] value.t = "num" -> convert_number(NumberOf(value))
      [] value.t = "str" ->
            convert_string_with_format(value.v, format, checked)
      [] value.t = "arr" ->
            CListOf([i \in DOMAIN value.v |->
                json_to_cel_inner_Inherited(value.v[i], format, raw_schema,
                                            checked)])
      [] value.t = "obj" ->
            CMapOf([k \in DOMAIN value.v |->
                json_to_cel_inner_Inherited(value.v[k], format, raw_schema,
                                            checked)])

\* json_to_cel_inner(value, format, Some(raw_schema), None)
RECURSIVE json_to_cel_inner(_, _, _, _)
json_to_cel_inner(value, format, raw_schema, checked) ==
    CASE value.t = "null" -> CNull
      [] value.t = "bool" -> CBool(value.v)
      [] value.t = "num" -> convert_number(NumberOf(value))
      [] value.t = "str" ->
            convert_string_with_format(value.v, format, checked)
      [] value.t = "arr" ->
            LET items_schema == Get(raw_schema, "items") IN
            CListOf([i \in DOMAIN value.v |->
                IF items_schema.some
                THEN json_to_cel_inner(value.v[i],
                         from_schema(items_schema.val), items_schema.val,
                         checked)
                ELSE json_to_cel(value.v[i])])
      [] value.t = "obj" ->
            LET properties == Get(raw_schema, "properties")
                additional == Get(raw_schema, "additionalProperties")
            IN  CMapOf([k \in DOMAIN value.v |->
                    IF properties.some /\ Get(properties.val, k).some
                    THEN json_to_cel_inner(value.v[k],
                             from_schema(Get(properties.val, k).val),
                             Get(properties.val, k).val, checked)
                    ELSE IF additional.some /\ additional.val.t = "obj"
                    THEN json_to_cel_inner(value.v[k],
                             from_schema(additional.val), additional.val,
                             checked)
                    ELSE json_to_cel(value.v[k])])

json_to_cel_with_schema(value, sch, checked) ==
    json_to_cel_inner(value, from_schema(sch), sch, checked)

----------------------------------------------------------------------------
(* The expression engine: cel::Program *)

ESelf == [op |-> "var", name |-> "self"]
EOld == [op |-> "var", name |-> "oldSelf"]
ELit(i) == [op |-> "int", v |-> i]
EStr(s) == [op |-> "strlit", v |-> s]
ESel(e, f) == [op |-> "sel", e |-> e, field |-> f]
EGe(l, r) == [op |-> "ge", l |-> l, r |-> r]
EIsNull(e) == [op |-> "isnull", e |-> e]
EOr(l, r) == [op |-> "or", l |-> l, r |-> r]
EToStr(e) == [op |-> "string", e |-> e]
ECat(l, r) == [op |-> "cat", l |-> l, r |-> r]
EGt(l, r) == [op |-> "gt", l |-> l, r |-> r]
ETimestamp(e) == [op |-> "timestamp", e |-> e]

\* The expression texts the model's rules are written in, with their
\* parse trees.  Every other text is a parse error.
Grammar ==
    [t \in {"self >= 0", "self >= oldSelf",
            "oldSelf == null || self >= oldSelf",
            "self.a >= 0", "self.a >= oldSelf.a", "self.a",
            "'v=' + string(self)", "'old=' + string(oldSelf)", "self",
            "self.expiresAt > timestamp('2024-01-01T00:00:00Z')",
            "self > timestamp('2024-01-01T00:00:00Z')"} |->
        CASE t = "self >= 0" -> EGe(ESelf, ELit(0))
          [] t = "self >= oldSelf" -> EGe(ESelf, EOld)
          [] t = "oldSelf == null || self >= oldSelf" ->
                EOr(EIsNull(EOld), EGe(ESelf, EOld))
          [] t = "self.a >= 0" -> EGe(ESel(ESelf, "a"), ELit(0))
          [] t = "self.a >= oldSelf.a" ->
                EGe(ESel(ESelf, "a"), ESel(EOld, "a"))
          [] t = "self.a" -> ESel(ESelf, "a")
          [] t = "'v=' + string(self)" -> ECat(EStr("v="), EToStr(ESelf))
          [] t = "'old=' + string(oldSelf)" ->
                ECat(EStr("old="), EToStr(EOld))
          [] t = "self" -> ESelf
          [] t = "self.expiresAt > timestamp('2024-01-01T00:00:00Z')" ->
                EGt(ESel(ESelf, "expiresAt"), ETimestamp(EStr("2024-01-01T00:00:00Z")))
          [] t = "self > timestamp('2024-01-01T00:00:00Z')" ->
                EGt(ESelf, ETimestamp(EStr("2024-01-01T00:00:00Z")))]

ParseErrorText == "ERROR: syntax error"

\* Program::compile(text)
ProgramCompile(text) ==
    IF text \in DOMAIN Grammar THEN Ok(Grammar[text]) ELSE Err(ParseErrorText)

\* Program::references(): the variables of the parse tree
RECURSIVE References(_)
References(e) ==
    CASE e.op = "var" -> {e.name}
      [] e.op \in {"int", "strlit"} -> {}
      [] e.op \in {"sel", "isnull", "string", "timestamp"} -> References(e.e)
      [] e.op \in {"ge", "gt", "or", "cat"} ->
            References(e.l) \cup References(e.r)

\* Program::execute(ctx): ctx maps the declared variables to values
RECURSIVE Execute(_, _)
Execute(e, ctx) ==
    CASE e.op = "var" ->
            IF e.name \in DOMAIN ctx THEN Ok(ctx[e.name])
            ELSE Err("Undeclared reference to '" \o e.name \o "'")
      [] e.op = "int" -> Ok(CInt(e.v))
      [] e.op = "strlit" -> Ok(CString(e.v))
      [] e.op = "sel" ->
            LET r == Execute(e.e, ctx) IN
            IF ~r.ok THEN r
            ELSE IF r.val.ct # "Map" THEN Err("No such key: " \o e.field)
            ELSE IF e.field \notin DOMAIN r.val.cv
                 THEN Err("No such key: " \o e.field)
            ELSE Ok(r.val.cv[e.field])
      [] e.op = "ge" ->
            LET l == Execute(e.l, ctx) IN
            IF ~l.ok THEN l
            ELSE LET r == Execute(e.r, ctx) IN
                 IF ~r.ok THEN r
                 ELSE IF l.val.ct = "Int" /\ r.val.ct = "Int"
                      THEN Ok(CBool(l.val.cv >= r.val.cv))
                 ELSE Err("Values are not comparable")
      [] e.op = "gt" ->
            LET l == Execute(e.l, ctx) IN
            IF ~l.ok THEN l
            ELSE LET r == Execute(e.r, ctx) IN
                 IF ~r.ok THEN r
                 ELSE IF l.val.ct = "Int" /\ r.val.ct = "Int"
                      THEN Ok(CBool(l.val.cv > r.val.cv))
                 ELSE IF l.val.ct = "Timestamp" /\ r.val.ct = "Timestamp"
                      THEN Ok(CBool(~InstantLe(l.val.cv, r.val.cv)))
                 ELSE Err("Values are not comparable")
      [] e.op = "timestamp" ->
            LET r == Execute(e.e, ctx) IN
            IF ~r.ok THEN r
            ELSE IF r.val.ct = "String" /\ parse_from_rfc3339(r.val.cv).some
                 THEN Ok(CTimestamp(parse_from_rfc3339(r.val.cv).val))
            ELSE Err("Timestamp parse error")
      [] e.op = "isnull" ->
            LET r == Execute(e.e, ctx) IN
            IF ~r.ok THEN r ELSE Ok(CBool(r.val.ct = "Null"))
      [] e.op = "or" ->
            LET l == Execute(e.l, ctx) IN
            IF ~l.ok THEN l
            ELSE IF l.val.ct # "Bool" THEN Err("No such overload")
            ELSE IF l.val.cv THEN l
            ELSE Execute(e.r, ctx)
      [] e.op = "string" ->
            LET r == Execute(e.e, ctx) IN
            IF ~r.ok THEN r
            ELSE IF r.val.ct = "Int" THEN Ok(CString(ToString(r.val.cv)))
            ELSE IF r.val.ct = "String" THEN r
            ELSE Err("Unsupported target type")
      [] e.op = "cat" ->
            LET l == Execute(e.l, ctx) IN
            IF ~l.ok THEN l
            ELSE LET r == Execute(e.r, ctx) IN
                 IF ~r.ok THEN r
                 ELSE IF l.val.ct = "String" /\ r.val.ct = "String"
                      THEN Ok(CString(l.val.cv \o r.val.cv))
                 ELSE Err("Unsupported binary operator")

----------------------------------------------------------------------------
(* Rule and its deserialization (src/src/compilation.rs) *)

\* serde::de::Unexpected of a JSON value, as serde_json's invalid_type
\* displays it; the grave accents of that text are written ' here.
Unexpected(v) ==
    IF v.t = "null" THEN "null"
    ELSE IF v.t = "bool"
    THEN "boolean '" \o (IF v.v THEN "true" ELSE "false") \o "'"
    ELSE IF v.t = "num" THEN "integer '" \o ToString(v.v) \o "'"
    ELSE IF v.t = "str" THEN "string \"" \o v.v \o "\""
    ELSE IF v.t = "arr" THEN "sequence"
    ELSE "map"

InvalidType(v, expected) ==
    "invalid type: " \o Unexpected(v) \o ", expected " \o expected

\* The field rule: String
StringField(v) ==
    IF v.t = "str" THEN Ok(v.v) ELSE Err(InvalidType(v, "a string"))

\* An Option<String> field with #[serde(default)]: absent or null is None.
OptStringField(o) ==
    IF ~o.some \/ o.val.t = "null" THEN Ok(None)
    ELSE IF o.val.t = "str" THEN Ok(Some(o.val.v))
    ELSE Err(InvalidType(o.val, "a string"))

\* An Option<bool> field with #[serde(default)]
OptBoolField(o) ==
    IF ~o.some \/ o.val.t = "null" THEN Ok(None)
    ELSE IF o.val.t = "bool" THEN Ok(Some(o.val.v))
    ELSE Err(InvalidType(o.val, "a boolean"))

\* The derived visitor of Rule over fields that are present or not.  A map
\* is visited in the order of its keys, so the first field in that order
\* that has the wrong type is the error, and a missing rule is found last.
RuleFromFields(r, m, me, re, fp, oo, missing) ==
    LET fpv == OptStringField(fp)
        mv == OptStringField(m)
        mev == OptStringField(me)
        oov == OptBoolField(oo)
        rev == OptStringField(re)
    IN  IF ~fpv.ok THEN fpv
        ELSE IF ~mv.ok THEN mv
        ELSE IF ~mev.ok THEN mev
        ELSE IF ~oov.ok THEN oov
        ELSE IF ~rev.ok THEN rev
        ELSE IF ~r.some THEN Err(missing)
        ELSE IF r.val.t # "str" THEN StringField(r.val)
        ELSE Ok([rule |-> r.val.v, message |-> mv.val,
                 message_expression |-> mev.val, reason |-> rev.val,
                 field_path |-> fpv.val, optional_old_self |-> oov.val])

\* The derived visitor of Rule over a sequence: the fields in the order of
\* their declaration, then serde_json's check that no element is left
RuleFromSeq(a) ==
    LET El(i) == IF i <= Len(a) THEN Some(a[i]) ELSE None IN
    IF Len(a) = 0
    THEN Err("invalid length 0, expected struct Rule with 6 elements")
    ELSE IF ~StringField(a[1]).ok THEN StringField(a[1])
    ELSE IF ~OptStringField(El(2)).ok THEN OptStringField(El(2))
    ELSE IF ~OptStringField(El(3)).ok THEN OptStringField(El(3))
    ELSE IF ~OptStringField(El(4)).ok THEN OptStringField(El(4))
    ELSE IF ~OptStringField(El(5)).ok THEN OptStringField(El(5))
    ELSE IF ~OptBoolField(El(6)).ok THEN OptBoolField(El(6))
    ELSE IF Len(a) > 6
    THEN Err("invalid length " \o ToString(Len(a))
                 \o ", expected fewer elements in array")
    ELSE RuleFromFields(El(1), El(2), El(3), El(4), El(5), El(6), "")

\* serde_json::from_value::<Rule>(raw), fields renamed to camelCase
DeserializeRule(raw) ==
    IF raw.t = "obj"
    THEN RuleFromFields(Get(raw, "rule"), Get(raw, "message"),
                        Get(raw, "messageExpression"), Get(raw, "reason"),
                        Get(raw, "fieldPath"), Get(raw, "optionalOldSelf"),
                        "missing field 'rule'")
    ELSE IF raw.t = "arr" THEN RuleFromSeq(raw.v)
    ELSE Err(InvalidType(raw, "struct Rule"))

\* Mutation: only the operands of the outermost operator are searched.
has_variable_Shallow(program, name) ==
    \/ program.op = "var" /\ program.name = name
    \/ /\ program.op \in {"ge", "gt", "or", "cat"}
       /\ \/ program.l.op = "var" /\ program.l.name = name
          \/ program.r.op = "var" /\ program.r.name = name

\* program.references().has_variable(name)
has_variable(program, name) == name \in References(program)

ParseError(rule, source) == [kind |-> "Parse", rule |-> rule, source |-> source]
InvalidRule(e) == [kind |-> "InvalidRule", source |-> e]

\* Option<&str>::and_then(|expr| Program::compile(expr).ok())
CompileMessageExpression(me) ==
    IF me.some /\ ProgramCompile(me.val).ok
    THEN Some(ProgramCompile(me.val).val) ELSE None

\* Mutation: a messageExpression that does not compile fails the rule.
compile_rule_StrictMessage(rule) ==
    LET program == ProgramCompile(rule.rule)
        me == rule.message_expression
    IN  IF ~program.ok THEN Err(ParseError(rule.rule, program.err))
        ELSE IF me.some /\ ~ProgramCompile(me.val).ok
        THEN Err(ParseError(me.val, ProgramCompile(me.val).err))
        ELSE Ok([program |-> program.val,
                 rule |-> rule,
                 is_transition_rule |-> has_variable(program.val, "oldSelf"),
                 message_program |-> CompileMessageExpression(me)])

compile_rule(rule) ==
    LET program == ProgramCompile(rule.rule) IN
    IF ~program.ok THEN Err(ParseError(rule.rule, program.err))
    ELSE Ok([program |-> program.val,
             rule |-> rule,
             is_transition_rule |-> has_variable(program.val, "oldSelf"),
             message_program |->
                 CompileMessageExpression(rule.message_expression)])

\* The closure of compile_schema_validations applied to one array entry
CompileEntry(raw) ==
    LET rule == DeserializeRule(raw) IN
    IF ~rule.ok THEN Err(InvalidRule(rule.err)) ELSE compile_rule(rule.val)

\* Mutation: the outcomes are collected up to the first failure, as by
\* collecting into a Result.
compile_schema_validations_StopAtFirstError(sch) ==
    LET rules == Get(sch, "x-kubernetes-validations")
        all == [i \in DOMAIN rules.val.v |-> CompileEntry(rules.val.v[i])]
        bad == {i \in DOMAIN all : ~all[i].ok}
    IN  IF rules.some /\ rules.val.t = "arr"
        THEN IF bad = {} THEN all
             ELSE SubSeq(all, 1, CHOOSE i \in bad : \A j \in bad : i <= j)
        ELSE << >>

compile_schema_validations(sch) ==
    LET rules == Get(sch, "x-kubernetes-validations") IN
    IF rules.some /\ rules.val.t = "arr"
    THEN [i \in DOMAIN rules.val.v |-> CompileEntry(rules.val.v[i])]
    ELSE << >>

\* compile_schema: the compiled trees of a schema.  The properties of a
\* node are a std HashMap, whose iteration order is fixed when the map is
\* built and is not determined by its keys: iter_order is that order.
RECURSIVE compile_schema(_)
compile_schema(sch) ==
    LET props == Get(sch, "properties")
        names == IF props.some /\ props.val.t = "obj"
                 THEN DOMAIN props.val.v ELSE {}
        children == UNION {compile_schema(props.val.v[k]) : k \in names}
        items == Get(sch, "items")
        addl == Get(sch, "additionalProperties")
    IN  {[validations |-> compile_schema_validations(sch),
          properties |-> p,
          iter_order |-> o,
          items |-> i,
          additional_properties |-> a] :
            p \in {f \in [names -> children] :
                     \A k \in names : f[k] \in compile_schema(props.val.v[k])},
            o \in Perms(names),
            i \in IF items.some
                  THEN {Some(c) : c \in compile_schema(items.val)}
                  ELSE {None},
            a \in IF addl.some /\ addl.val.t = "obj"
                  THEN {Some(c) : c \in compile_schema(addl.val)}
                  ELSE {None}}

----------------------------------------------------------------------------
(* Validator (src/src/validation.rs) *)

join_path(base, segment) ==
    IF base = "" THEN segment ELSE base \o "." \o segment

join_path_index(base, index) ==
    IF base = "" THEN "[" \o ToString(index) \o "]"
    ELSE base \o "[" \o ToString(index) \o "]"

ValidationError(rule, message, field_path, reason) ==
    [rule |-> rule, message |-> message, field_path |-> field_path,
     reason |-> reason]

\* The accumulator of one validation call: the errors pushed so far and,
\* for every Program::execute of a rule program, the rule and the
\* environment it ran in.
EmptyAcc == [errors |-> << >>, evals |-> << >>]

\* Mutation: oldSelf is bound only when there is an old value; the null
\* binding of optionalOldSelf is forgotten.
RuleContext_NoNullBinding(cr, value, old_value) ==
    IF old_value.some
    THEN [n \in {"self", "oldSelf"} |->
             IF n = "self" THEN json_to_cel(value)
             ELSE json_to_cel(old_value.val)]
    ELSE [n \in {"self"} |-> json_to_cel(value)]

\* The Context of evaluate_rule: self, and oldSelf when there is an old
\* value or the rule opts in with optionalOldSelf.
RuleContext(cr, value, old_value) ==
    LET Context(self) ==
            IF old_value.some
            THEN [n \in {"self", "oldSelf"} |->
                     IF n = "self" THEN self ELSE json_to_cel(old_value.val)]
            ELSE IF cr.rule.optional_old_self = Some(TRUE)
            THEN [n \in {"self", "oldSelf"} |->
                     IF n = "self" THEN self ELSE CNull]
            ELSE [n \in {"self"} |-> self]
    IN  Context(json_to_cel(value))

\* Mutation: the static message is preferred to the dynamic one.
resolve_message_StaticFirst(cr, ctx) ==
    LET dyn == IF cr.message_program.some
               THEN Execute(cr.message_program.val, ctx)
               ELSE Err("no message program")
    IN  IF cr.rule.message.some THEN cr.rule.message.val
        ELSE IF cr.message_program.some /\ dyn.ok /\ dyn.val.ct = "String"
        THEN dyn.val.cv
        ELSE "failed rule: " \o cr.rule.rule

resolve_message(cr, ctx) ==
    LET Message(dyn) ==
            IF cr.message_program.some /\ dyn.ok /\ dyn.val.ct = "String"
            THEN dyn.val.cv
            ELSE IF cr.rule.message.some THEN cr.rule.message.val
            ELSE "failed rule: " \o cr.rule.rule
    IN  Message(IF cr.message_program.some
                THEN Execute(cr.message_program.val, ctx)
                ELSE Err("no message program"))

\* Mutation: only a false result is an error; any other value passes.
ExecuteRule_NonBoolPasses(cr, value, old_value, path, acc) ==
    LET ctx == RuleContext(cr, value, old_value)
        res == Execute(cr.program, ctx)
        ran == Append(acc.evals,
                      [rule |-> cr.rule, path |-> path, ctx |-> ctx])
        new == IF res.ok /\ res.val.ct = "Bool" /\ ~res.val.cv
               THEN <<ValidationError(cr.rule.rule, resolve_message(cr, ctx),
                                      path, cr.rule.reason)>>
               ELSE IF res.ok THEN << >>
               ELSE <<ValidationError(cr.rule.rule,
                         "rule evaluation error: " \o res.err, path, None)>>
    IN  [errors |-> acc.errors \o new, evals |-> ran]

\* evaluate_rule after the transition check: bind, execute, map the outcome
ExecuteRule(cr, value, old_value, path, acc) ==
    LET Outcome(ctx, res) ==
            [errors |-> acc.errors \o
                (IF res.ok /\ res.val.ct = "Bool" /\ res.val.cv THEN << >>
                 ELSE IF res.ok /\ res.val.ct = "Bool" /\ ~res.val.cv
                 THEN <<ValidationError(cr.rule.rule,
                                        resolve_message(cr, ctx),
                                        path, cr.rule.reason)>>
                 ELSE IF res.ok
                 THEN <<ValidationError(cr.rule.rule,
                           "rule \"" \o cr.rule.rule
                               \o "\" did not evaluate to bool",
                           path, None)>>
                 ELSE <<ValidationError(cr.rule.rule,
                           "rule evaluation error: " \o res.err,
                           path, None)>>),
             evals |-> Append(acc.evals,
                              [rule |-> cr.rule, path |-> path, ctx |-> ctx])]
        Run(ctx) == Outcome(ctx, Execute(cr.program, ctx))
    IN  Run(RuleContext(cr, value, old_value))

\* Mutation: the skip tests optionalOldSelf == Some(false), so a rule that
\* leaves the flag unset is executed on create.
evaluate_rule_SkipOnlyExplicitFalse(cr, value, old_value, path, acc) ==
    IF /\ cr.is_transition_rule
       /\ ~old_value.some
       /\ cr.rule.optional_old_self = Some(FALSE)
    THEN acc
    ELSE ExecuteRule(cr, value, old_value, path, acc)

evaluate_rule(cr, value, old_value, path, acc) ==
    IF /\ cr.is_transition_rule
       /\ ~old_value.some
       /\ cr.rule.optional_old_self # Some(TRUE)
    THEN acc
    ELSE ExecuteRule(cr, value, old_value, path, acc)

\* Mutation: an outcome that is a compilation error is passed over.
EvaluateResult_IgnoreCompileErrors(result, value, old_value, path, acc) ==
    IF result.ok THEN evaluate_rule(result.val, value, old_value, path, acc)
    ELSE acc

\* Mutation: a compilation error of an expression that mentions oldSelf is
\* passed over where there is no old value.
EvaluateResult_SkipUncompiledTransition(result, value, old_value, path, acc) ==
    IF result.ok THEN evaluate_rule(result.val, value, old_value, path, acc)
    ELSE IF result.err.kind = "Parse"
    THEN IF ~old_value.some
            /\ \E i \in 1..Len(result.err.rule) :
                   SubSeq(result.err.rule, i, i + 6) = "oldSelf"
         THEN acc
         ELSE [acc EXCEPT !.errors = Append(@,
                 ValidationError(result.err.rule,
                     "failed to compile rule \"" \o result.err.rule \o "\": "
                         \o result.err.source,
                     path, None))]
    ELSE [acc EXCEPT !.errors = Append(@,
            ValidationError("",
                "invalid rule definition: " \o result.err.source,
                path, None))]

\* One iteration of the loop of evaluate_compiled_results
EvaluateResult(result, value, old_value, path, acc) ==
    IF result.ok THEN evaluate_rule(result.val, value, old_value, path, acc)
    ELSE IF result.err.kind = "Parse"
    THEN [acc EXCEPT !.errors = Append(@,
            ValidationError(result.err.rule,
                "failed to compile rule \"" \o result.err.rule \o "\": "
                    \o result.err.source,
                path, None))]
    ELSE [acc EXCEPT !.errors = Append(@,
            ValidationError("",
                "invalid rule definition: " \o result.err.source,
                path, None))]

RECURSIVE evaluate_compiled_results_StopAtError(_, _, _, _, _)
RECURSIVE evaluate_compiled_results(_, _, _, _, _)

\* Mutation: the loop ends at the first result that pushed an error.
evaluate_compiled_results_StopAtError(results, value, old_value, path, acc) ==
    IF results = << >> THEN acc
    ELSE LET acc1 == EvaluateResult(Head(results), value, old_value, path, acc)
         IN  IF Len(acc1.errors) > Len(acc.errors) THEN acc1
             ELSE evaluate_compiled_results_StopAtError(
                      Tail(results), value, old_value, path, acc1)

evaluate_compiled_results(results, value, old_value, path, acc) ==
    IF results = << >> THEN acc
    ELSE evaluate_compiled_results(Tail(results), value, old_value, path,
            EvaluateResult(Head(results), value, old_value, path, acc))

evaluate_validations(sch, value, old_value, path, acc) ==
    evaluate_compiled_results(compile_schema_validations(sch),
                              value, old_value, path, acc)

RECURSIVE walk_schema(_, _, _, _, _)
RECURSIVE WalkSchemaProperties(_, _, _, _, _, _)
RECURSIVE WalkSchemaItems(_, _, _, _, _, _)
RECURSIVE WalkSchemaAdditional(_, _, _, _, _, _, _)

\* Mutation: a property that the object does not have is walked as null.
WalkSchemaProperties_AbsentAsNull(properties, names, value, old_value, path, acc) ==
    IF names = << >> THEN acc
    ELSE
    LET prop_name == Head(names)
        child == Get(value, prop_name)
        acc1 == walk_schema(properties.v[prop_name],
                            IF child.some THEN child.val ELSE JNull,
                            OptGet(old_value, prop_name),
                            join_path(path, prop_name), acc)
    IN  WalkSchemaProperties(properties, Tail(names), value, old_value, path,
                             acc1)

\* for (prop_name, prop_schema) in properties, names the keys still to visit
WalkSchemaProperties(properties, names, value, old_value, path, acc) ==
    IF names = << >> THEN acc
    ELSE
    LET prop_name == Head(names)
        child == Get(value, prop_name)
        acc1 == IF child.some
                THEN walk_schema(properties.v[prop_name], child.val,
                                 OptGet(old_value, prop_name),
                                 join_path(path, prop_name), acc)
                ELSE acc
    IN  WalkSchemaProperties(properties, Tail(names), value, old_value, path,
                             acc1)

\* for (i, item) in arr.iter().enumerate(), from index i on
WalkSchemaItems(items_schema, arr, i, old_value, path, acc) ==
    IF i >= Len(arr) THEN acc
    ELSE WalkSchemaItems(items_schema, arr, i + 1, old_value, path,
            walk_schema(items_schema, arr[i + 1], OptIndex(old_value, i),
                        join_path_index(path, i), acc))

\* Mutation: the known keys are not skipped, so the value of a declared
\* property is visited a second time, under the additionalProperties schema.
WalkSchemaAdditional_NoSkip(addl, known, names, value, old_value, path, acc) ==
    IF names = << >> THEN acc
    ELSE WalkSchemaAdditional(addl, known, Tail(names), value, old_value,
            path,
            walk_schema(addl, value.v[Head(names)],
                        OptGet(old_value, Head(names)),
                        join_path(path, Head(names)), acc))

\* for (key, val) in obj, skipping the known (declared) keys
WalkSchemaAdditional(addl, known, names, value, old_value, path, acc) ==
    IF names = << >> THEN acc
    ELSE
    LET key == Head(names)
        acc1 == IF key \in known THEN acc
                ELSE walk_schema(addl, value.v[key],
                                 OptGet(old_value, key),
                                 join_path(path, key), acc)
    IN  WalkSchemaAdditional(addl, known, Tail(names), value, old_value,
                             path, acc1)

walk_schema(sch, value, old_value, path, acc) ==
    LET properties == Get(sch, "properties")
        items == Get(sch, "items")
        addl == Get(sch, "additionalProperties")
        known == IF properties.some /\ properties.val.t = "obj"
                 THEN DOMAIN properties.val.v ELSE {}
        Properties(acc1) ==
            IF properties.some /\ properties.val.t = "obj" /\ value.t = "obj"
            THEN WalkSchemaProperties(properties.val,
                    SortedKeys(DOMAIN properties.val.v), value,
                    old_value, path, acc1)
            ELSE acc1
        Items(acc2) ==
            IF items.some /\ value.t = "arr"
            THEN WalkSchemaItems(items.val, value.v, 0, old_value, path, acc2)
            ELSE acc2
        Additional(acc3) ==
            IF addl.some /\ addl.val.t = "obj" /\ value.t = "obj"
            THEN WalkSchemaAdditional(addl.val, known,
                    SortedKeys(DOMAIN value.v), value, old_value, path, acc3)
            ELSE acc3
    IN  Additional(Items(Properties(
            evaluate_validations(sch, value, old_value, path, acc))))

RECURSIVE walk_compiled(_, _, _, _, _)
RECURSIVE WalkCompiledProperties(_, _, _, _, _, _)
RECURSIVE WalkCompiledItems(_, _, _, _, _, _)
RECURSIVE WalkCompiledAdditional(_, _, _, _, _, _)
RECURSIVE WalkCompiledAdditional_NoSkip(_, _, _, _, _, _)

\* for (prop_name, child_compiled) in &compiled.properties
WalkCompiledProperties(node, names, value, old_value, path, acc) ==
    IF names = << >> THEN acc
    ELSE
    LET prop_name == Head(names)
        child == Get(value, prop_name)
        acc1 == IF child.some
                THEN walk_compiled(node.properties[prop_name], child.val,
                                   OptGet(old_value, prop_name),
                                   join_path(path, prop_name), acc)
                ELSE acc
    IN  WalkCompiledProperties(node, Tail(names), value, old_value, path,
                               acc1)

WalkCompiledItems(items_compiled, arr, i, old_value, path, acc) ==
    IF i >= Len(arr) THEN acc
    ELSE WalkCompiledItems(items_compiled, arr, i + 1, old_value, path,
            walk_compiled(items_compiled, arr[i + 1], OptIndex(old_value, i),
                          join_path_index(path, i), acc))

\* Mutation: the declared properties are not skipped, so a declared key is
\* walked a second time under the additionalProperties node.
WalkCompiledAdditional_NoSkip(node, names, value, old_value, path, acc) ==
    IF names = << >> THEN acc
    ELSE WalkCompiledAdditional_NoSkip(node, Tail(names), value, old_value,
            path,
            walk_compiled(node.additional_properties.val,
                          value.v[Head(names)],
                          OptGet(old_value, Head(names)),
                          join_path(path, Head(names)), acc))

WalkCompiledAdditional(node, names, value, old_value, path, acc) ==
    IF names = << >> THEN acc
    ELSE
    LET key == Head(names)
        acc1 == IF key \in DOMAIN node.properties THEN acc
                ELSE walk_compiled(node.additional_properties.val,
                                   value.v[key], OptGet(old_value, key),
                                   join_path(path, key), acc)
    IN  WalkCompiledAdditional(node, Tail(names), value, old_value, path,
                               acc1)

walk_compiled(node, value, old_value, path, acc) ==
    LET Properties(acc1) ==
            IF value.t = "obj"
            THEN WalkCompiledProperties(node, node.iter_order, value,
                                        old_value, path, acc1)
            ELSE acc1
        Items(acc2) ==
            IF node.items.some /\ value.t = "arr"
            THEN WalkCompiledItems(node.items.val, value.v, 0, old_value,
                                   path, acc2)
            ELSE acc2
        Additional(acc3) ==
            IF node.additional_properties.some /\ value.t = "obj"
            THEN WalkCompiledAdditional(node, SortedKeys(DOMAIN value.v),
                                        value, old_value, path, acc3)
            ELSE acc3
    IN  Additional(Items(Properties(
            evaluate_compiled_results(node.validations, value, old_value,
                                      path, acc))))

\* Validator::validate and Validator::validate_compiled
validate(sch, obj, old) == walk_schema(sch, obj, old, "", EmptyAcc)

validate_compiled(node, obj, old) == walk_compiled(node, obj, old, "", EmptyAcc)

----------------------------------------------------------------------------
(* The inputs: schema documents and objects *)

\* A JSON object from a sequence of <<key, value>> pairs with distinct keys
MkObj(pairs) ==
    JObj([k \in {pairs[i][1] : i \in DOMAIN pairs} |->
            pairs[CHOOSE i \in DOMAIN pairs : pairs[i][1] = k][2]])

XKV == "x-kubernetes-validations"

\* Rule entries for scalar positions
RNonNeg == MkObj(<<<<"rule", JStr("self >= 0")>>,
                   <<"message", JStr("must be non-negative")>>,
                   <<"reason", JStr("FieldValueInvalid")>>>>)
RHint == MkObj(<<<<"rule", JStr("self >= 0")>>,
                 <<"message", JStr("must be non-negative")>>,
                 <<"fieldPath", JStr(".b")>>>>)
RDefault == MkObj(<<<<"rule", JStr("self >= 0")>>>>)
RTrans == MkObj(<<<<"rule", JStr("self >= oldSelf")>>,
                  <<"message", JStr("cannot decrease")>>>>)
RTransFalse == MkObj(<<<<"rule", JStr("self >= oldSelf")>>,
                       <<"message", JStr("cannot decrease")>>,
                       <<"optionalOldSelf", JBool(FALSE)>>>>)
ROptional == MkObj(<<<<"rule", JStr("oldSelf == null || self >= oldSelf")>>,
                     <<"message", JStr("cannot decrease")>>,
                     <<"optionalOldSelf", JBool(TRUE)>>>>)
ROptionalStrict == MkObj(<<<<"rule", JStr("self >= oldSelf")>>,
                           <<"reason", JStr("FieldValueForbidden")>>,
                           <<"optionalOldSelf", JBool(TRUE)>>>>)
RDynamic == MkObj(<<<<"rule", JStr("self >= 0")>>,
                    <<"message", JStr("static fallback")>>,
                    <<"messageExpression", JStr("'v=' + string(self)")>>>>)
RDynamicInvalid == MkObj(<<<<"rule", JStr("self >= 0")>>,
                           <<"message", JStr("static message")>>,
                           <<"messageExpression", JStr("invalid >=")>>>>)
RDynamicNonString == MkObj(<<<<"rule", JStr("self >= 0")>>,
                             <<"messageExpression", JStr("self")>>>>)
RDynamicOld == MkObj(<<<<"rule", JStr("self >= 0")>>,
                       <<"message", JStr("static old")>>,
                       <<"messageExpression",
                         JStr("'old=' + string(oldSelf)")>>>>)
RNonBool == MkObj(<<<<"rule", JStr("self")>>,
                    <<"message", JStr("unused")>>,
                    <<"reason", JStr("FieldValueInvalid")>>>>)
RUnparsable == MkObj(<<<<"rule", JStr("self >=")>>,
                       <<"message", JStr("unused")>>>>)
RNoRule == MkObj(<<<<"message", JStr("no rule")>>>>)
RNumberRule == MkObj(<<<<"rule", JNum(0)>>>>)
\* an entry with an expression that parses and a message of the wrong type
RNumberMessage == MkObj(<<<<"rule", JStr("self >= 0")>>,
                          <<"message", JNum(0)>>>>)
\* an entry that is a sequence of the fields of a rule
RSeq == JArr(<<JStr("self >= 0"), JStr("from a sequence")>>)

\* Rule entries for object positions
RObjNonNeg == MkObj(<<<<"rule", JStr("self.a >= 0")>>,
                      <<"message", JStr("a must be non-negative")>>,
                      <<"reason", JStr("FieldValueInvalid")>>>>)
RObjTrans == MkObj(<<<<"rule", JStr("self.a >= oldSelf.a")>>,
                     <<"message", JStr("cannot scale down")>>>>)
RObjNonBool == MkObj(<<<<"rule", JStr("self.a")>>>>)

Node(pairs) == MkObj(pairs)
Rules(rs) == <<XKV, JArr(rs)>>
Props(pairs) == <<"properties", MkObj(pairs)>>

\* make_schema of the unit tests: rules at the root of an object with two
\* properties, which carry rules of their own
SchemaRoot ==
    Node(<<Rules(<<RObjNonNeg, RObjTrans, RObjNonBool>>),
           Props(<<<<"a", Node(<<Rules(<<RHint>>)>>)>>,
                   <<"b", Node(<<Rules(<<RTrans, RNonNeg>>)>>)>>>>)>>)

\* nested_property_field_path: rules two properties deep
SchemaNested ==
    Node(<<Props(<<<<"a",
        Node(<<Rules(<<RObjNonNeg>>),
               Props(<<<<"a", Node(<<Rules(<<RDynamic, RDefault>>)>>)>>,
                       <<"b", Node(<<Rules(<<ROptionalStrict>>)>>)>>>>)>>)>>>>)>>)

\* array_length_mismatch_with_old_self: a transition rule on array items
SchemaItems ==
    Node(<<Props(<<<<"a",
        Node(<<<<"items", Node(<<Rules(<<RTrans, RNonNeg>>)>>)>>>>)>>>>)>>)

\* items at the root
SchemaRootItems ==
    Node(<<Rules(<<RNonBool>>),
           <<"items", Node(<<Rules(<<RTransFalse, RUnparsable,
                                      RDynamicOld>>)>>)>>>>)

\* additional_properties_walking, with one declared property
SchemaAdditional ==
    Node(<<Rules(<<RUnparsable, RObjNonNeg>>),
           Props(<<<<"a", Node(<<Rules(<<RNonNeg>>)>>)>>>>),
           <<"additionalProperties",
             Node(<<Rules(<<ROptional, RTrans>>)>>)>>>>)

\* the message variants at one property
SchemaMessages ==
    Node(<<Props(<<<<"a",
        Node(<<Rules(<<RDynamic, RDynamicInvalid, RDynamicNonString,
                       RDynamicOld, RDefault>>)>>)>>>>)>>)

\* multiple_rules_mixed_results: entries that do and do not compile, and a
\* rules member that is not an array
SchemaMixed ==
    Node(<<Rules(<<RDefault, RUnparsable, RNoRule, JStr("self >= 0"),
                   RNumberRule, RNonNeg, RObjNonBool>>),
           Props(<<<<"a", Node(<<<<XKV, RNonNeg>>>>)>>,
                   <<"b", Node(<<Rules(<<RUnparsable, ROptional, RSeq,
                                         RNumberMessage>>)>>)>>>>)>>)

Schemas == {SchemaRoot, SchemaNested, SchemaItems, SchemaRootItems,
            SchemaAdditional, SchemaMessages, SchemaMixed}

\* The numbers of the objects: one that fails "self >= 0" and one that
\* passes it; the old objects hold the larger one.
Ints == {-1, 0}
OldInts == {0}

Scalars(ints) == {JNum(i) : i \in ints} \cup {JNull}

Arrays(ints) ==
    {JArr(s) : s \in UNION {[1..n -> {JNum(i) : i \in ints}] : n \in 0..MaxLen}}

FlatObjects(ints) ==
    UNION {{JObj(f) : f \in [K -> {JNum(i) : i \in ints}]} : K \in SUBSET Keys}

Wrapped(ints) ==
    {JObj([k \in {"a"} |-> v]) : v \in Arrays(ints) \cup FlatObjects(ints)}

Values(ints) ==
    Scalars(ints) \cup Arrays(ints) \cup FlatObjects(ints) \cup Wrapped(ints)

Objects == Values(Ints)
OldObjects == Values(OldInts)

----------------------------------------------------------------------------
(* The callers of the library *)

\* No conversion has been called for
ValuesIdle ==
    /\ overflow_checks = FALSE
    /\ cel = None
    /\ cel_schema = None
    /\ duration = None
    /\ expression = None
    /\ outcome = None
    /\ displayed = None

\* The documents a caller validates against a schema: an array where the
\* schema has items at its root, an object where it has not, or a scalar
Fits(sch, obj) ==
    /\ obj.t = "arr" => Get(sch, "items").some
    /\ obj.t = "obj" => ~Get(sch, "items").some

\* The old documents of an update: of the kind of the new one, or null
OldFor(obj) == {o \in OldObjects : o.t = obj.t \/ o.t = "null"}

Init ==
    /\ schema \in Schemas
    /\ object \in {o \in Objects : Fits(schema, o)}
    /\ old_object \in {None} \cup {Some(o) : o \in OldFor(object)}
    /\ compiled = None
    /\ errors = None
    /\ evals = << >>
    /\ errors_c = None
    /\ evals_c = << >>
    /\ calls = << >>
    /\ ValuesIdle

\* The same callers, with a schema that declares a property whose name is
\* the empty string and objects that hold it.
SchemaEmptyName ==
    Node(<<Props(<<<<"", Node(<<Rules(<<RObjNonNeg>>),
                               Props(<<<<"a", Node(<<Rules(<<RNonNeg,
                                                            RTrans>>)>>)>>>>)>>)>>,
                   <<"a", Node(<<Rules(<<RDefault>>)>>)>>>>)>>)

EmptyNameObjects(ints) ==
    {JObj([k \in {""} |-> v]) : v \in FlatObjects(ints)} \cup
    {JObj([k \in {"", "a"} |-> IF k = "" THEN v ELSE JNum(i)]) :
        v \in FlatObjects(ints), i \in ints}

InitEmptyName ==
    /\ schema = SchemaEmptyName
    /\ object \in EmptyNameObjects(Ints)
    /\ old_object \in {None} \cup {Some(o) : o \in EmptyNameObjects(OldInts)}
    /\ compiled = None
    /\ errors = None
    /\ evals = << >>
    /\ errors_c = None
    /\ evals_c = << >>
    /\ calls = << >>
    /\ ValuesIdle

\* validate(&schema, &object, old_object)
Validate ==
    /\ LET acc == validate(schema, object, old_object) IN
         /\ errors' = Some(acc.errors)
         /\ evals' = acc.evals
    /\ UNCHANGED <<schema, object, old_object, compiled, errors_c, evals_c,
                   calls, values_vars>>

\* let compiled = compile_schema(&schema)
CompileSchema ==
    /\ compiled = None
    /\ \E c \in compile_schema(schema) : compiled' = Some(c)
    /\ UNCHANGED <<schema, object, old_object, errors, evals, errors_c,
                   evals_c, calls, values_vars>>

\* validate_compiled(&compiled, &object, old_object)
ValidateCompiled ==
    /\ compiled.some
    /\ LET acc == validate_compiled(compiled.val, object, old_object) IN
         /\ errors_c' = Some(acc.errors)
         /\ evals_c' = acc.evals
    /\ UNCHANGED <<schema, object, old_object, compiled, errors, evals,
                   calls, values_vars>>

Next == Validate \/ CompileSchema \/ ValidateCompiled

Spec == Init /\ [][Next]_vars

SpecEmptyName == InitEmptyName /\ [][Next]_vars

----------------------------------------------------------------------------
(* Callers that share one compiled tree.  A call of validate_compiled is   *)
(* in flight between its start and its return; walk_compiled is followed   *)
(* node by node, the nodes that it has still to walk held on a stack, so   *)
(* that the calls of two callers interleave.                               *)

Callers == {1, 2}

Idle == [status |-> "idle"]

\* One invocation of walk_compiled(compiled, value, old_value, path, errors)
Task(node, value, old_value, path) ==
    [node |-> node, value |-> value, old_value |-> old_value, path |-> path]

\* The recursive invocations that walk_compiled makes for a task, in the
\* order of its three loops
ChildTasks(t) ==
    LET node == t.node
        present == IF t.value.t = "obj"
                   THEN SelectSeq(node.iter_order,
                                  LAMBDA k : k \in DOMAIN t.value.v)
                   ELSE << >>
        props == [i \in DOMAIN present |->
                     Task(node.properties[present[i]], t.value.v[present[i]],
                          OptGet(t.old_value, present[i]),
                          join_path(t.path, present[i]))]
        items == IF node.items.some /\ t.value.t = "arr"
                 THEN [i \in DOMAIN t.value.v |->
                          Task(node.items.val, t.value.v[i],
                               OptIndex(t.old_value, i - 1),
                               join_path_index(t.path, i - 1))]
                 ELSE << >>
        others == IF node.additional_properties.some /\ t.value.t = "obj"
                  THEN SelectSeq(SortedKeys(DOMAIN t.value.v),
                                 LAMBDA k : k \notin DOMAIN node.properties)
                  ELSE << >>
        addl == [i \in DOMAIN others |->
                    Task(node.additional_properties.val, t.value.v[others[i]],
                         OptGet(t.old_value, others[i]),
                         join_path(t.path, others[i]))]
    IN  props \o items \o addl

\* Mutation: the validator keeps one error vector, which a new call does
\* not clear while another call is in flight.
NewCall_SharedErrors(obj, old) ==
    LET busy == {d \in Callers : calls[d].status = "running"} IN
    [status |-> "running", object |-> obj, old_object |-> old,
     tree |-> compiled.val,
     stack |-> <<Task(compiled.val, obj, old, "")>>,
     acc |-> IF busy = {} THEN EmptyAcc
             ELSE calls[CHOOSE d \in busy : TRUE].acc]

\* validate_compiled(&compiled, &object, old_object) is entered:
\* let mut errors = Vec::new(), and the walk starts at the root
NewCall(obj, old) ==
    [status |-> "running", object |-> obj, old_object |-> old,
     tree |-> compiled.val,
     stack |-> <<Task(compiled.val, obj, old, "")>>,
     acc |-> EmptyAcc]

\* walk_compiled at the task on top of the stack: the rules of the node are
\* evaluated, then its children are walked before what was left to walk
Advance(call) ==
    LET t == Head(call.stack) IN
    [call EXCEPT
        !.acc = evaluate_compiled_results(t.node.validations, t.value,
                                          t.old_value, t.path, call.acc),
        !.stack = ChildTasks(t) \o Tail(call.stack)]

\* The objects the callers validate: both properties present
SharedObjects(ints) == {JObj(f) : f \in [Keys -> {JNum(i) : i \in ints}]}

InitShared ==
    /\ schema \in {SchemaRoot, SchemaAdditional}
    /\ object = JNull
    /\ old_object = None
    /\ compiled = None
    /\ errors = None
    /\ evals = << >>
    /\ errors_c = None
    /\ evals_c = << >>
    /\ calls = [c \in Callers |-> Idle]
    /\ ValuesIdle

StartCall(c) ==
    /\ compiled.some
    /\ calls[c].status # "running"
    /\ \E obj \in SharedObjects(Ints),
          old \in {None} \cup {Some(o) : o \in SharedObjects(OldInts)} :
            calls' = [calls EXCEPT ![c] = NewCall(obj, old)]
    /\ UNCHANGED <<schema, object, old_object, compiled, errors, evals,
                   errors_c, evals_c, values_vars>>

StepCall(c) ==
    /\ calls[c].status = "running"
    /\ calls[c].stack # << >>
    /\ calls' = [calls EXCEPT ![c] = Advance(calls[c])]
    /\ UNCHANGED <<schema, object, old_object, compiled, errors, evals,
                   errors_c, evals_c, values_vars>>

\* the call returns its error vector
ReturnCall(c) ==
    /\ calls[c].status = "running"
    /\ calls[c].stack = << >>
    /\ calls' = [calls EXCEPT ![c].status = "returned"]
    /\ UNCHANGED <<schema, object, old_object, compiled, errors, evals,
                   errors_c, evals_c, values_vars>>

NextShared ==
    \/ CompileSchema
    \/ \E c \in Callers : StartCall(c) \/ StepCall(c) \/ ReturnCall(c)

SpecShared == InitShared /\ [][NextShared]_vars

----------------------------------------------------------------------------
(* Positions: where in the object, and under which schema node, a rule     *)
(* applies.  A position is the sequence of steps from the root; a step is  *)
(* a property name or an array index.                                      *)

KeyStep(k) == [key |-> k, idx |-> -1]
IdxStep(i) == [key |-> "", idx |-> i]

RECURSIVE PositionsOf(_)
PositionsOf(value) ==
    {<< >>} \cup
    (IF value.t = "obj"
     THEN UNION {{<<KeyStep(k)>> \o p : p \in PositionsOf(value.v[k])} :
                    k \in DOMAIN value.v}
     ELSE IF value.t = "arr"
     THEN UNION {{<<IdxStep(i - 1)>> \o p : p \in PositionsOf(value.v[i])} :
                    i \in DOMAIN value.v}
     ELSE {})

\* The value at a position, if the document has one there
RECURSIVE ValueAt(_, _)
ValueAt(value, pos) ==
    IF pos = << >> THEN Some(value)
    ELSE LET s == Head(pos) IN
         IF s.idx = -1
         THEN IF value.t = "obj" /\ s.key \in DOMAIN value.v
              THEN ValueAt(value.v[s.key], Tail(pos)) ELSE None
         ELSE IF value.t = "arr" /\ s.idx < Len(value.v)
              THEN ValueAt(value.v[s.idx + 1], Tail(pos)) ELSE None

PriorAt(pos) == IF old_object.some THEN ValueAt(old_object.val, pos) ELSE None

\* The schema node that governs a position: a declared property, else an
\* object-valued additionalProperties, for a name; items for an index.
RECURSIVE SchemaAt(_, _)
SchemaAt(sch, pos) ==
    IF pos = << >> THEN Some(sch)
    ELSE LET s == Head(pos)
             props == Get(sch, "properties")
             addl == Get(sch, "additionalProperties")
             items == Get(sch, "items")
         IN  IF s.idx = -1
             THEN IF props.some /\ props.val.t = "obj"
                     /\ s.key \in DOMAIN props.val.v
                  THEN SchemaAt(props.val.v[s.key], Tail(pos))
                  ELSE IF addl.some /\ addl.val.t = "obj"
                  THEN SchemaAt(addl.val, Tail(pos))
                  ELSE None
             ELSE IF items.some THEN SchemaAt(items.val, Tail(pos))
                  ELSE None

\* The positions of the object that a schema node governs
VisitedPositions == {pos \in PositionsOf(object) : SchemaAt(schema, pos).some}

\* The rendering of a position as a field path: the bare name for a
\* property of the root, ".name" for a property below it, "[index]" for an
\* array element.
RECURSIVE Render(_)
Render(pos) ==
    IF pos = << >> THEN ""
    ELSE LET front == Render(SubSeq(pos, 1, Len(pos) - 1))
             last == pos[Len(pos)]
         IN  IF last.idx # -1 THEN front \o "[" \o ToString(last.idx) \o "]"
             ELSE IF Len(pos) = 1 THEN last.key
             ELSE front \o "." \o last.key

PositionOfPath(path) ==
    LET at == {pos \in PositionsOf(object) : Render(pos) = path} IN
    IF at # {} THEN Some(CHOOSE pos \in at : TRUE) ELSE None

PriorAtPath(path) ==
    LET pos == PositionOfPath(path) IN
    IF pos.some THEN PriorAt(pos.val) ELSE None

\* The rule entries declared at the schema node of a position
EntriesAt(pos) ==
    LET node == SchemaAt(schema, pos)
        rules == IF node.some THEN Get(node.val, XKV) ELSE None
    IN  IF rules.some /\ rules.val.t = "arr" THEN rules.val.v ELSE << >>

\* The rules (deserialized entries) declared at the schema node of a position
RulesAt(pos) ==
    LET entries == EntriesAt(pos)
        rules == [i \in DOMAIN entries |-> DeserializeRule(entries[i])]
    IN  {rules[i].val : i \in {j \in DOMAIN entries : rules[j].ok}}

\* A rule text that parses and mentions oldSelf
IsTransitionText(text) ==
    /\ ProgramCompile(text).ok
    /\ "oldSelf" \in References(ProgramCompile(text).val)

\* The two validation calls of the state: what each executed and returned
Runs ==
    {[name |-> "validate", done |-> errors.some,
      errors |-> IF errors.some THEN errors.val ELSE << >>, evals |-> evals],
     [name |-> "validate_compiled", done |-> errors_c.some,
      errors |-> IF errors_c.some THEN errors_c.val ELSE << >>,
      evals |-> evals_c]}

Range(s) == {s[i] : i \in DOMAIN s}

----------------------------------------------------------------------------
(* C1: transition skip law.  A rule that references oldSelf and does not   *)
(* set optionalOldSelf = true is never executed at a position that has no  *)
(* prior value, and no error of that rule is reported there; with          *)
(* old_object = None it is executed nowhere.                               *)

SkippedRule(rule) ==
    IsTransitionText(rule.rule) /\ rule.optional_old_self # Some(TRUE)

C1_TransitionSkipLaw ==
    \A run \in Runs :
        /\ \A ev \in Range(run.evals) :
              SkippedRule(ev.rule) =>
                  /\ old_object.some
                  /\ PriorAtPath(ev.path).some
        /\ \A e \in Range(run.errors) :
              (IsTransitionText(e.rule) /\ ~PriorAtPath(e.field_path).some) =>
                  /\ PositionOfPath(e.field_path).some
                  /\ \E rule \in RulesAt(PositionOfPath(e.field_path).val) :
                        /\ rule.rule = e.rule
                        /\ rule.optional_old_self = Some(TRUE)

\* A call has run over an object with a visited position that carries a
\* skippable rule and has no prior value, although an old object was
\* supplied, and no error is reported at that position.
C1_Witness ==
    /\ errors.some /\ errors_c.some
    /\ old_object.some
    /\ \E pos \in VisitedPositions :
          /\ ~PriorAt(pos).some
          /\ \E rule \in RulesAt(pos) : SkippedRule(rule)
          /\ \A e \in Range(errors.val) : e.field_path # Render(pos)

----------------------------------------------------------------------------
(* C2: optional-old-self law.  A transition rule with optionalOldSelf =    *)
(* true is executed at every visited position of its node: with oldSelf    *)
(* bound to the prior value where there is one and to null where there is  *)
(* none, and what it reports is the outcome of its expression under that   *)
(* binding.                                                                *)

OptionalRule(rule) ==
    IsTransitionText(rule.rule) /\ rule.optional_old_self = Some(TRUE)

\* Equality of two cel::Value, tag first
CelEq(a, b) == a.ct = b.ct /\ a = b

\* The binding the law asks for at a position
LawfulOldSelf(pos) ==
    IF PriorAt(pos).some THEN json_to_cel(PriorAt(pos).val) ELSE CNull

\* The result of the rule's expression under the lawful binding
LawfulResult(rule, pos) ==
    Execute(ProgramCompile(rule.rule).val,
            [n \in {"self", "oldSelf"} |->
                IF n = "self" THEN json_to_cel(ValueAt(object, pos).val)
                ELSE LawfulOldSelf(pos)])

ErrorsOf(run, text, path) ==
    {i \in DOMAIN run.errors :
        run.errors[i].rule = text /\ run.errors[i].field_path = path}

C2_OptionalOldSelfLaw ==
    \A run \in Runs : run.done =>
        \A pos \in VisitedPositions : \A rule \in RulesAt(pos) :
            OptionalRule(rule) =>
                LET res == LawfulResult(rule, pos)
                    errs == ErrorsOf(run, rule.rule, Render(pos))
                IN  /\ \E ev \in Range(run.evals) :
                          /\ ev.rule = rule
                          /\ ev.path = Render(pos)
                          /\ DOMAIN ev.ctx = {"self", "oldSelf"}
                          /\ CelEq(ev.ctx["oldSelf"], LawfulOldSelf(pos))
                    /\ (res.ok /\ res.val.ct = "Bool" /\ res.val.cv)
                          => errs = {}
                    /\ (res.ok /\ res.val.ct = "Bool" /\ ~res.val.cv)
                          => \E i \in errs :
                                run.errors[i].reason = rule.reason
                    /\ ~res.ok
                          => \E i \in errs :
                                run.errors[i].message =
                                    "rule evaluation error: " \o res.err

\* Both calls have run on create over an object with a visited position
\* that carries an optional transition rule.
C2_Witness ==
    /\ errors.some /\ errors_c.some
    /\ ~old_object.some
    /\ \E pos \in VisitedPositions : \E rule \in RulesAt(pos) :
          /\ OptionalRule(rule)
          /\ LawfulResult(rule, pos).ok
          /\ ErrorsOf(CHOOSE run \in Runs : run.name = "validate",
                      rule.rule, Render(pos)) = {}

----------------------------------------------------------------------------
(* C3: array elements are matched to the old object by index alone.  At a  *)
(* visited array element i, a transition rule that does not opt in is      *)
(* executed iff the old value at the array's position is an array longer   *)
(* than i, and then oldSelf is the old array's element i.                  *)

ElementPositions == {pos \in VisitedPositions : pos # << >> /\ pos[Len(pos)].idx # -1}

OldArrayOf(pos) == PriorAt(SubSeq(pos, 1, Len(pos) - 1))

HasOldElement(pos) ==
    /\ OldArrayOf(pos).some
    /\ OldArrayOf(pos).val.t = "arr"
    /\ pos[Len(pos)].idx < Len(OldArrayOf(pos).val.v)

OldElement(pos) == OldArrayOf(pos).val.v[pos[Len(pos)].idx + 1]

EvalsOf(run, rule, path) ==
    {i \in DOMAIN run.evals :
        run.evals[i].rule = rule /\ run.evals[i].path = path}

C3_ArrayElementsMatchedByIndex ==
    \A run \in Runs : run.done =>
        \A pos \in ElementPositions : \A rule \in RulesAt(pos) :
            SkippedRule(rule) =>
                LET ran == EvalsOf(run, rule, Render(pos)) IN
                /\ (ran # {}) <=> HasOldElement(pos)
                /\ \A i \in ran :
                      CelEq(run.evals[i].ctx["oldSelf"],
                            json_to_cel(OldElement(pos)))

\* Both calls have run on an array whose first element decreased and whose
\* last element has no counterpart in the shorter old array: one error, at
\* the first element.
C3_Witness ==
    /\ errors.some /\ errors_c.some
    /\ \E p \in ElementPositions, q \in ElementPositions :
          /\ SubSeq(p, 1, Len(p) - 1) = SubSeq(q, 1, Len(q) - 1)
          /\ HasOldElement(p) /\ ~HasOldElement(q)
          /\ \E rule \in RulesAt(p) :
                /\ SkippedRule(rule)
                /\ \A run \in Runs :
                      /\ ErrorsOf(run, rule.rule, Render(p)) # {}
                      /\ ErrorsOf(run, rule.rule, Render(q)) = {}

----------------------------------------------------------------------------
(* C4: validate and validate_compiled agree.  For the same schema, object  *)
(* and old object, validate and validate_compiled over a compiled tree of  *)
(* the schema return the same errors with the same multiplicities; the     *)
(* order may differ.                                                       *)

Count(seq, e) == Cardinality({i \in DOMAIN seq : seq[i] = e})

SameMultiset(s1, s2) ==
    /\ Len(s1) = Len(s2)
    /\ \A e \in Range(s1) \cup Range(s2) : Count(s1, e) = Count(s2, e)

C4_ValidateAndValidateCompiledAgree ==
    (errors.some /\ errors_c.some) => SameMultiset(errors.val, errors_c.val)

\* Both calls have returned the same errors, two or more, in different
\* orders.
C4_Witness ==
    /\ errors.some /\ errors_c.some
    /\ Len(errors.val) >= 2
    /\ errors.val # errors_c.val
    /\ SameMultiset(errors.val, errors_c.val)

----------------------------------------------------------------------------
(* C5: field paths are purely structural.  Every execution and every error *)
(* carries the rendering of the position it belongs to: the bare property  *)
(* name at the root, ".name" below it, "[index]" for an array element.     *)
(* The rule's fieldPath hint has no part in it.                            *)
(* join_path tests whether the path so far is empty, not whether the       *)
(* position is the root: below a root property named "" the name is        *)
(* written bare again.                                                     *)

\* The entry of a schema node that an error reports
ReportsEntry(e, raw) ==
    LET rule == DeserializeRule(raw) IN
    IF rule.ok THEN e.rule = rule.val.rule ELSE e.rule = ""

C5_FieldPathsAreStructural ==
    \A run \in Runs :
        /\ \A ev \in Range(run.evals) :
              \E pos \in VisitedPositions :
                  /\ ev.path = Render(pos)
                  /\ ev.rule \in RulesAt(pos)
                  /\ ev.ctx["self"] = json_to_cel(ValueAt(object, pos).val)
        /\ \A e \in Range(run.errors) :
              \E pos \in VisitedPositions :
                  /\ e.field_path = Render(pos)
                  /\ \E raw \in Range(EntriesAt(pos)) : ReportsEntry(e, raw)

----------------------------------------------------------------------------
(* What a schema node's rule entries are to report at a position           *)

\* The environment of a rule at a position: self; oldSelf bound to the
\* prior value, or to null for a rule that opts in, else not declared
EnvAt(rule, pos) ==
    IF PriorAt(pos).some \/ rule.optional_old_self = Some(TRUE)
    THEN [n \in {"self", "oldSelf"} |->
             IF n = "self" THEN json_to_cel(ValueAt(object, pos).val)
             ELSE LawfulOldSelf(pos)]
    ELSE [n \in {"self"} |-> json_to_cel(ValueAt(object, pos).val)]

\* The outcome of one entry of the rules array at a position
OutcomeKind(raw, pos) ==
    LET d == DeserializeRule(raw) IN
    IF ~d.ok THEN "invalid"
    ELSE IF ~ProgramCompile(d.val.rule).ok THEN "parse"
    ELSE IF SkippedRule(d.val) /\ ~PriorAt(pos).some THEN "skip"
    ELSE LET res == Execute(ProgramCompile(d.val.rule).val,
                            EnvAt(d.val, pos))
         IN  IF ~res.ok THEN "evalerror"
             ELSE IF res.val.ct # "Bool" THEN "nonbool"
             ELSE IF res.val.cv THEN "pass" ELSE "fail"

\* The entries of the node at a position that report an error, in the
\* order of the rules array
ReportingAt(pos) ==
    SelectSeq(EntriesAt(pos),
              LAMBDA raw : OutcomeKind(raw, pos) \notin {"skip", "pass"})

\* The errors a run reports at a position, in the order of the list
ErrorsAt(run, pos) ==
    LET path == Render(pos) IN
    SelectSeq(run.errors, LAMBDA e : e.field_path = path)

\* s contains sub
Contains(s, sub) ==
    \E i \in 1..(Len(s) - Len(sub) + 1) : SubSeq(s, i, i + Len(sub) - 1) = sub

----------------------------------------------------------------------------
(* C6: message priority.  The error of a rule that evaluated to false      *)
(* carries the string its messageExpression produces, if that expression   *)
(* compiles and executes to a string in the rule's environment; otherwise  *)
(* the static message, if there is one; otherwise a default that contains  *)
(* the rule text.                                                          *)

\* The result of the rule's messageExpression at a position
DynamicMessage(rule, pos) ==
    IF rule.message_expression.some
       /\ ProgramCompile(rule.message_expression.val).ok
    THEN Execute(ProgramCompile(rule.message_expression.val).val,
                 EnvAt(rule, pos))
    ELSE Err("no dynamic message")

HasDynamicMessage(rule, pos) ==
    DynamicMessage(rule, pos).ok /\ DynamicMessage(rule, pos).val.ct = "String"

C6_MessagePriority ==
    \A run \in Runs : run.done =>
        \A pos \in VisitedPositions :
            LET es == ErrorsAt(run, pos)
                rs == ReportingAt(pos)
            IN  /\ Len(es) = Len(rs)
                /\ \A k \in DOMAIN rs :
                      OutcomeKind(rs[k], pos) = "fail" =>
                          LET rule == DeserializeRule(rs[k]).val IN
                          IF HasDynamicMessage(rule, pos)
                          THEN es[k].message = DynamicMessage(rule, pos).val.cv
                          ELSE IF rule.message.some
                          THEN es[k].message = rule.message.val
                          ELSE Contains(es[k].message, rule.rule)

\* Both calls report, at one node, a dynamic message that wins over the
\* static one, a static message standing in for a messageExpression that
\* does not compile, and a default message.
C6_Witness ==
    /\ errors.some /\ errors_c.some
    /\ \A run \in Runs : \E pos \in VisitedPositions :
          LET es == ErrorsAt(run, pos)
              rs == ReportingAt(pos)
          IN  /\ Len(es) = Len(rs)
              /\ \E k \in DOMAIN rs :
                    /\ OutcomeKind(rs[k], pos) = "fail"
                    /\ HasDynamicMessage(DeserializeRule(rs[k]).val, pos)
                    /\ DeserializeRule(rs[k]).val.message.some
                    /\ es[k].message = "v=-1"
              /\ \E k \in DOMAIN rs :
                    /\ OutcomeKind(rs[k], pos) = "fail"
                    /\ DeserializeRule(rs[k]).val.message_expression
                          = Some("invalid >=")
                    /\ es[k].message = "static message"
              /\ \E k \in DOMAIN rs :
                    /\ OutcomeKind(rs[k], pos) = "fail"
                    /\ ~DeserializeRule(rs[k]).val.message.some
                    /\ es[k].message = "failed rule: self >= 0"

----------------------------------------------------------------------------
(* The nodes of a schema and of its compiled tree, by their place          *)

PropStep(k) == [kind |-> "properties", key |-> k]
ItemsStep == [kind |-> "items", key |-> ""]
AdditionalStep == [kind |-> "additionalProperties", key |-> ""]

\* The places of the nodes that compile_schema compiles
RECURSIVE SchemaPlaces(_)
SchemaPlaces(sch) ==
    LET props == Get(sch, "properties")
        items == Get(sch, "items")
        addl == Get(sch, "additionalProperties")
    IN  {<< >>}
        \cup (IF props.some /\ props.val.t = "obj"
              THEN UNION {{<<PropStep(k)>> \o p :
                              p \in SchemaPlaces(props.val.v[k])} :
                          k \in DOMAIN props.val.v}
              ELSE {})
        \cup (IF items.some
              THEN {<<ItemsStep>> \o p : p \in SchemaPlaces(items.val)}
              ELSE {})
        \cup (IF addl.some /\ addl.val.t = "obj"
              THEN {<<AdditionalStep>> \o p : p \in SchemaPlaces(addl.val)}
              ELSE {})

RECURSIVE SchemaNodeAt(_, _)
SchemaNodeAt(sch, place) ==
    IF place = << >> THEN sch
    ELSE LET s == Head(place) IN
         IF s.kind = "properties"
         THEN SchemaNodeAt(Get(sch, "properties").val.v[s.key], Tail(place))
         ELSE SchemaNodeAt(Get(sch, s.kind).val, Tail(place))

\* The node of a compiled tree at a place, if the tree has one there
RECURSIVE CompiledNodeAt(_, _)
CompiledNodeAt(node, place) ==
    IF place = << >> THEN Some(node)
    ELSE LET s == Head(place) IN
         IF s.kind = "properties"
         THEN IF s.key \in DOMAIN node.properties
              THEN CompiledNodeAt(node.properties[s.key], Tail(place))
              ELSE None
         ELSE IF s.kind = "items"
         THEN IF node.items.some
              THEN CompiledNodeAt(node.items.val, Tail(place)) ELSE None
         ELSE IF node.additional_properties.some
              THEN CompiledNodeAt(node.additional_properties.val, Tail(place))
              ELSE None

\* The entries of the rules array of a schema node
EntriesOf(node) ==
    LET rules == Get(node, XKV) IN
    IF rules.some /\ rules.val.t = "arr" THEN rules.val.v ELSE << >>

\* The outcome lists computed for the node at a place: the one of
\* compile_schema_validations and, once the schema is compiled, the
\* validations of the compiled node
OutcomeLists(place) ==
    {compile_schema_validations(SchemaNodeAt(schema, place))}
    \cup (IF compiled.some /\ CompiledNodeAt(compiled.val, place).some
          THEN {CompiledNodeAt(compiled.val, place).val.validations}
          ELSE {})

----------------------------------------------------------------------------
(* C7: a defective dynamic message never invalidates or multiplies a rule. *)
(* An entry whose rule expression parses compiles to a rule, with a        *)
(* message program exactly when its messageExpression is present and       *)
(* parses; and when such a rule evaluates to false without a usable        *)
(* dynamic message, the call reports one error for it, with the static     *)
(* message or else the default one, and no error of the call is about the  *)
(* message expression.                                                     *)

MessageExpressions ==
    UNION {{rule.message_expression.val :
               rule \in {r \in RulesAt(pos) : r.message_expression.some}} :
           pos \in VisitedPositions}

C7_DefectiveMessageHarmless ==
    /\ \A place \in SchemaPlaces(schema) :
          LET entries == EntriesOf(SchemaNodeAt(schema, place)) IN
          /\ compiled.some => CompiledNodeAt(compiled.val, place).some
          /\ \A outs \in OutcomeLists(place) :
                /\ Len(outs) = Len(entries)
                /\ \A i \in DOMAIN entries :
                      LET d == DeserializeRule(entries[i]) IN
                      d.ok /\ ProgramCompile(d.val.rule).ok =>
                          /\ outs[i].ok
                          /\ outs[i].val.message_program.some <=>
                                /\ d.val.message_expression.some
                                /\ ProgramCompile(
                                      d.val.message_expression.val).ok
    /\ \A run \in Runs : run.done =>
          LET expressions == MessageExpressions
              paths == {Render(pos) : pos \in VisitedPositions}
          IN
          /\ \A i \in DOMAIN run.errors :
                /\ run.errors[i].rule \notin expressions
                /\ run.errors[i].field_path \in paths
          /\ \A pos \in VisitedPositions :
                LET es == ErrorsAt(run, pos)
                    rs == ReportingAt(pos)
                IN  /\ Len(es) = Len(rs)
                    /\ \A k \in DOMAIN rs :
                          LET rule == DeserializeRule(rs[k]).val IN
                          /\ OutcomeKind(rs[k], pos) = "fail"
                          /\ ~HasDynamicMessage(rule, pos)
                          => /\ es[k].rule = rule.rule
                             /\ es[k].message =
                                   IF rule.message.some THEN rule.message.val
                                   ELSE "failed rule: " \o rule.rule

\* The schema is compiled and both calls have reported a rule whose
\* messageExpression does not compile, one whose message program yields a
\* non-string and one whose message program fails when it is executed.
C7_Witness ==
    /\ compiled.some /\ errors.some /\ errors_c.some
    /\ \E pos \in VisitedPositions :
          LET rs == ReportingAt(pos)
              Failing(k) == OutcomeKind(rs[k], pos) = "fail"
              Me(k) == DeserializeRule(rs[k]).val.message_expression
          IN  /\ \A run \in Runs : Len(ErrorsAt(run, pos)) = Len(rs)
              /\ \E k \in DOMAIN rs :
                    Failing(k) /\ Me(k).some /\ ~ProgramCompile(Me(k).val).ok
              /\ \E k \in DOMAIN rs :
                    /\ Failing(k) /\ Me(k).some
                    /\ DynamicMessage(DeserializeRule(rs[k]).val, pos).ok
                    /\ DynamicMessage(DeserializeRule(rs[k]).val, pos).val.ct
                          # "String"
              /\ \E k \in DOMAIN rs :
                    /\ Failing(k) /\ Me(k).some
                    /\ ProgramCompile(Me(k).val).ok
                    /\ ~DynamicMessage(DeserializeRule(rs[k]).val, pos).ok

----------------------------------------------------------------------------
(* C8: compilation never blocks on one bad rule.  For a node whose rules   *)
(* member is an array of n entries there are n outcomes, in the order of   *)
(* the array: Err(InvalidRule) for an entry that does not deserialize,     *)
(* Err(Parse) with the expression text for one whose expression does not   *)
(* parse, Ok with the entry's rule otherwise; and outcome i is the one     *)
(* the entry has when it is compiled alone.                                *)

Alone(entry) == compile_schema_validations(Node(<<Rules(<<entry>>)>>))

C8_OneOutcomePerEntry ==
    \A place \in SchemaPlaces(schema) :
        LET entries == EntriesOf(SchemaNodeAt(schema, place)) IN
        \A outs \in OutcomeLists(place) :
            /\ Len(outs) = Len(entries)
            /\ \A i \in DOMAIN entries :
                  LET d == DeserializeRule(entries[i]) IN
                  /\ Len(Alone(entries[i])) = 1
                  /\ outs[i].ok = Alone(entries[i])[1].ok
                  /\ outs[i] = Alone(entries[i])[1]
                  /\ outs[i].ok <=> (d.ok /\ ProgramCompile(d.val.rule).ok)
                  /\ ~d.ok => outs[i].err.kind = "InvalidRule"
                  /\ d.ok /\ ~ProgramCompile(d.val.rule).ok =>
                        /\ outs[i].err.kind = "Parse"
                        /\ outs[i].err.rule = d.val.rule
                  /\ outs[i].ok => outs[i].val.rule = d.val

\* The compiled tree has a node whose outcomes are, in this order, a
\* compiled rule, a parse error, an invalid entry and a compiled rule.
C8_Witness ==
    /\ compiled.some
    /\ \E place \in SchemaPlaces(schema) :
          LET outs == CompiledNodeAt(compiled.val, place).val.validations IN
          \E i, j, k, l \in DOMAIN outs :
              /\ i < j /\ j < k /\ k < l
              /\ outs[i].ok /\ outs[l].ok
              /\ ~outs[j].ok /\ outs[j].err.kind = "Parse"
              /\ ~outs[k].ok /\ outs[k].err.kind = "InvalidRule"

----------------------------------------------------------------------------
(* C9: rule outcome mapping.  Every execution of a rule is of an entry of  *)
(* the node and contributes at most one error: none for true; for false    *)
(* one error with the rule text, the resolved message, the path and the    *)
(* rule's reason; for a value that is not a boolean one error that says    *)
(* so, without reason, which no error of a false result says; for an       *)
(* evaluation error one error that describes it, without reason.           *)

Evaluated == {"pass", "fail", "nonbool", "evalerror"}

\* The message that section 4.6 resolves for a rule at a position
ResolvedMessage(rule, pos) ==
    IF HasDynamicMessage(rule, pos) THEN DynamicMessage(rule, pos).val.cv
    ELSE IF rule.message.some THEN rule.message.val
    ELSE "failed rule: " \o rule.rule

NotBoolText == "did not evaluate to bool"

\* The result of the rule expression of an entry at a position
ResultAt(raw, pos) ==
    Execute(ProgramCompile(DeserializeRule(raw).val.rule).val,
            EnvAt(DeserializeRule(raw).val, pos))

\* e is the error that an evaluated entry is to report at a position
MapsOutcome(e, raw, pos) ==
    LET rule == DeserializeRule(raw).val
        kind == OutcomeKind(raw, pos)
    IN  /\ e.rule = rule.rule
        /\ e.field_path = Render(pos)
        /\ kind = "fail" =>
              /\ e.message = ResolvedMessage(rule, pos)
              /\ e.reason = rule.reason
              /\ ~Contains(e.message, NotBoolText)
        /\ kind = "nonbool" =>
              /\ Contains(e.message, NotBoolText)
              /\ ~e.reason.some
        /\ kind = "evalerror" =>
              /\ Contains(e.message, ResultAt(raw, pos).err)
              /\ ~Contains(e.message, NotBoolText)
              /\ ~e.reason.some

\* The executions that a run made at a position
EvalsAt(run, pos) ==
    LET path == Render(pos) IN
    SelectSeq(run.evals, LAMBDA ev : ev.path = path)

C9_RuleOutcomeMapping ==
    \A run \in Runs : run.done =>
        \A pos \in VisitedPositions :
            LET es == ErrorsAt(run, pos)
                rs == ReportingAt(pos)
                evaluated == SelectSeq(EntriesAt(pos),
                    LAMBDA raw : OutcomeKind(raw, pos) \in Evaluated)
                ran == EvalsAt(run, pos)
            IN  /\ Len(es) = Len(rs)
                /\ Len(ran) = Len(evaluated)
                /\ \A k \in DOMAIN evaluated :
                      ran[k].rule = DeserializeRule(evaluated[k]).val
                /\ \A k \in DOMAIN rs :
                      OutcomeKind(rs[k], pos) \in Evaluated =>
                          MapsOutcome(es[k], rs[k], pos)

\* Both calls have evaluated, at one node, a rule that holds, a rule that
\* fails and has a reason, a rule that yields a non-boolean and a rule
\* whose evaluation raises an error.
C9_Witness ==
    /\ errors.some /\ errors_c.some
    /\ \E pos \in VisitedPositions :
          LET rs == EntriesAt(pos) IN
          /\ \A run \in Runs :
                Len(ErrorsAt(run, pos)) = Len(ReportingAt(pos))
          /\ \E k \in DOMAIN rs :
                /\ OutcomeKind(rs[k], pos) = "fail"
                /\ DeserializeRule(rs[k]).val.reason.some
          /\ \E k \in DOMAIN rs : OutcomeKind(rs[k], pos) = "nonbool"
          /\ \E k \in DOMAIN rs : OutcomeKind(rs[k], pos) = "evalerror"
    /\ \E pos \in VisitedPositions :
          \E k \in DOMAIN EntriesAt(pos) :
              OutcomeKind(EntriesAt(pos)[k], pos) = "pass"

----------------------------------------------------------------------------
(* C10: validation is an exhaustive pre-order walk.  The errors of a call  *)
(* are, for every visited position, the outcomes of the entries of its     *)
(* node in the order of the rules array, none missing after an entry that  *)
(* failed, raised an error or did not compile; the errors of a position    *)
(* and its descendants are one block of the list, which starts with the    *)
(* position's own; among the children, array items come in index order and *)
(* declared properties before additional ones.                             *)

IsPrefix(p, q) == Len(p) <= Len(q) /\ SubSeq(q, 1, Len(p)) = p

\* The node of the position declares a property of this name
Declares(pos, key) ==
    LET props == Get(SchemaAt(schema, pos).val, "properties") IN
    props.some /\ props.val.t = "obj" /\ key \in DOMAIN props.val.v

\* The pre-order of the walk puts position p before position q
MustPrecede(p, q) ==
    \/ IsPrefix(p, q) /\ p # q
    \/ \E c \in 0..(Len(p) - 1) :
          /\ c < Len(q)
          /\ SubSeq(p, 1, c) = SubSeq(q, 1, c)
          /\ \/ p[c + 1].idx # -1 /\ q[c + 1].idx # -1
                /\ p[c + 1].idx < q[c + 1].idx
             \/ /\ p[c + 1].idx = -1 /\ q[c + 1].idx = -1
                /\ Declares(SubSeq(p, 1, c), p[c + 1].key)
                /\ ~Declares(SubSeq(p, 1, c), q[c + 1].key)

\* e is the error that an entry of the node is to report at a position
ReportsOutcome(e, raw, pos) ==
    LET kind == OutcomeKind(raw, pos) IN
    /\ e.field_path = Render(pos)
    /\ kind = "invalid" => e.rule = "" /\ ~e.reason.some
    /\ kind = "parse" =>
          /\ e.rule = DeserializeRule(raw).val.rule
          /\ Contains(e.message, "failed to compile")
          /\ ~e.reason.some
    /\ kind \in Evaluated => MapsOutcome(e, raw, pos)

ErrorPosition(run, i) == PositionOfPath(run.errors[i].field_path).val

C10_ExhaustivePreOrderWalk ==
    \A run \in Runs : run.done =>
        LET visited == VisitedPositions
            where == {<<i, PositionOfPath(run.errors[i].field_path)>> :
                         i \in DOMAIN run.errors}
            at == [i \in DOMAIN run.errors |->
                      (CHOOSE w \in where : w[1] = i)[2]]
        IN  /\ \A i \in DOMAIN run.errors : at[i].some /\ at[i].val \in visited
            /\ \A pos \in visited :
                  LET es == ErrorsAt(run, pos)
                      rs == ReportingAt(pos)
                  IN  /\ Len(es) = Len(rs)
                      /\ \A k \in DOMAIN rs :
                            ReportsOutcome(es[k], rs[k], pos)
            /\ \A i, j \in DOMAIN run.errors :
                  i < j => ~MustPrecede(at[j].val, at[i].val)
            /\ \A pos \in visited :
                  LET under == {i \in DOMAIN run.errors :
                                   IsPrefix(pos, at[i].val)}
                  IN  \A i, k \in under : \A j \in i..k : j \in under

\* Both calls have walked a node where an entry that does not compile is
\* followed by an entry that reports an error, and below it a declared
\* property and an additional property that report errors too.
C10_Witness ==
    /\ errors.some /\ errors_c.some
    /\ \E pos, child, other \in VisitedPositions :
          LET rs == ReportingAt(pos) IN
          /\ \E k1, k2 \in DOMAIN rs :
                /\ k1 < k2
                /\ OutcomeKind(rs[k1], pos) = "parse"
                /\ OutcomeKind(rs[k2], pos) \in Evaluated
          /\ Len(child) = Len(pos) + 1 /\ IsPrefix(pos, child)
          /\ Len(other) = Len(pos) + 1 /\ IsPrefix(pos, other)
          /\ MustPrecede(child, other)
          /\ ReportingAt(child) # << >> /\ ReportingAt(other) # << >>
          /\ \A run \in Runs :
                \E i, j, k \in DOMAIN run.errors :
                    /\ i < j /\ j < k
                    /\ ErrorPosition(run, i) = pos
                    /\ ErrorPosition(run, j) = child
                    /\ ErrorPosition(run, k) = other

----------------------------------------------------------------------------
(* C11: compilation errors are surfaced, not fatal.  Every entry of a      *)
(* visited node that did not compile is reported once at the node's path   *)
(* and never executed, and the other entries of the node are evaluated as  *)
(* they are without it.  An expression that does not parse is reported     *)
(* with its text, in the rule field and in the message; an entry that is   *)
(* not a rule definition is reported with an empty rule field and the      *)
(* diagnostic of the deserializer.                                         *)

\* The expression of an entry, if the entry has one
ExpressionTextOf(raw) ==
    IF raw.t = "obj" /\ Get(raw, "rule").some /\ Get(raw, "rule").val.t = "str"
    THEN Some(Get(raw, "rule").val.v)
    ELSE IF raw.t = "arr" /\ Len(raw.v) > 0 /\ raw.v[1].t = "str"
    THEN Some(raw.v[1].v)
    ELSE None

NotCompiled == {"parse", "invalid"}

\* The entries of a node are each reported or not as OutcomeKind says, and
\* those that are evaluated are the ones executed
NodeAccounted(run, pos) ==
    LET es == ErrorsAt(run, pos)
        rs == ReportingAt(pos)
    IN  /\ Len(es) = Len(rs)
        /\ Len(EvalsAt(run, pos)) =
              Len(SelectSeq(EntriesAt(pos),
                            LAMBDA raw : OutcomeKind(raw, pos) \in Evaluated))
        /\ \A k \in DOMAIN rs :
              /\ es[k].field_path = Render(pos)
              /\ OutcomeKind(rs[k], pos) \in Evaluated =>
                    es[k].rule = DeserializeRule(rs[k]).val.rule

\* The claim as it is stated: the message of every compilation error has
\* the text of the entry's expression
C11_EveryCompileErrorNamesExpression ==
    \A run \in Runs : run.done =>
        \A pos \in VisitedPositions :
            LET es == ErrorsAt(run, pos)
                rs == ReportingAt(pos)
            IN  /\ NodeAccounted(run, pos)
                /\ \A k \in DOMAIN rs :
                      /\ OutcomeKind(rs[k], pos) \in NotCompiled
                      /\ ExpressionTextOf(rs[k]).some
                      => Contains(es[k].message, ExpressionTextOf(rs[k]).val)

C11_CompileErrorsSurfaced ==
    \A run \in Runs : run.done =>
        \A pos \in VisitedPositions :
            LET es == ErrorsAt(run, pos)
                rs == ReportingAt(pos)
            IN  /\ NodeAccounted(run, pos)
                /\ \A k \in DOMAIN rs :
                      LET kind == OutcomeKind(rs[k], pos)
                          text == ExpressionTextOf(rs[k])
                      IN  /\ kind = "parse" =>
                                /\ es[k].rule = text.val
                                /\ Contains(es[k].message, "failed to compile")
                                /\ Contains(es[k].message, text.val)
                                /\ ~es[k].reason.some
                          /\ kind = "invalid" =>
                                /\ es[k].rule = ""
                                /\ Contains(es[k].message,
                                            "invalid rule definition")
                                /\ Contains(es[k].message,
                                            DeserializeRule(rs[k]).err)
                                /\ ~es[k].reason.some

\* Both calls have reported, at one node, an expression that does not
\* parse and, after an entry that was evaluated, an entry that has an
\* expression but is not a rule definition.
C11_Witness ==
    /\ errors.some /\ errors_c.some
    /\ \E pos \in VisitedPositions :
          LET rs == EntriesAt(pos) IN
          /\ \A run \in Runs : NodeAccounted(run, pos)
          /\ \E i, j, k \in DOMAIN rs :
                /\ i < j /\ j < k
                /\ OutcomeKind(rs[i], pos) = "parse"
                /\ OutcomeKind(rs[j], pos) \in Evaluated
                /\ OutcomeKind(rs[k], pos) = "invalid"
                /\ ExpressionTextOf(rs[k]).some

----------------------------------------------------------------------------
(* C12: absent fields are never visited.  When the value at a visited      *)
(* position is not an object that has a property the node declares, no     *)
(* rule is executed and no error is reported with a path at or below the   *)
(* path of that property.                                                  *)

AtOrBelow(path, p) ==
    \/ path = p
    \/ StartsWith(path, p \o ".")
    \/ StartsWith(path, p \o "[")

\* The names of the properties that the node of a position declares
DeclaredAt(pos) ==
    LET props == Get(SchemaAt(schema, pos).val, "properties") IN
    IF props.some /\ props.val.t = "obj" THEN DOMAIN props.val.v ELSE {}

\* The declared properties that the value at the position does not have
AbsentAt(pos) ==
    {k \in DeclaredAt(pos) : ~ValueAt(object, pos \o <<KeyStep(k)>>).some}

PathOfProperty(pos, k) == Render(pos \o <<KeyStep(k)>>)

C12_AbsentFieldsNeverVisited ==
    \A run \in Runs : run.done =>
        \A pos \in VisitedPositions : \A k \in AbsentAt(pos) :
            /\ \A i \in DOMAIN run.errors :
                  ~AtOrBelow(run.errors[i].field_path, PathOfProperty(pos, k))
            /\ \A i \in DOMAIN run.evals :
                  ~AtOrBelow(run.evals[i].path, PathOfProperty(pos, k))

\* Both calls have walked an object that lacks a declared property whose
\* node has rules and which the old object has, and have reported an error
\* at another declared property.
C12_Witness ==
    /\ errors.some /\ errors_c.some
    /\ \E pos \in VisitedPositions : \E k \in AbsentAt(pos) :
          /\ EntriesOf(SchemaAt(schema, pos \o <<KeyStep(k)>>).val) # << >>
          /\ PriorAt(pos \o <<KeyStep(k)>>).some
          /\ \E j \in DeclaredAt(pos) \ {k} :
                \A run \in Runs :
                    ErrorsAt(run, pos \o <<KeyStep(j)>>) # << >>

----------------------------------------------------------------------------
(* C17: transition-rule detection is exact and depends only on the main    *)
(* expression.  Every compiled rule, in compile_schema_validations and in  *)
(* the compiled tree, has is_transition_rule true exactly when the         *)
(* variables referenced by its compiled rule expression include oldSelf,   *)
(* however deep the reference lies; what messageExpression references      *)
(* does not count.                                                         *)

C17_TransitionDetectionExact ==
    \A place \in SchemaPlaces(schema) :
        \A outs \in OutcomeLists(place) :
            \A i \in DOMAIN outs :
                outs[i].ok =>
                    LET cr == outs[i].val IN
                    /\ cr.is_transition_rule <=>
                          "oldSelf" \in References(cr.program)
                    /\ cr.is_transition_rule <=>
                          "oldSelf" \in References(Grammar[cr.rule.rule])

\* The schema is compiled and one node of the tree holds a rule flagged as
\* a transition rule whose reference lies below a member selection or an
\* operator, and a rule not flagged whose messageExpression alone
\* references oldSelf.
C17_Witness ==
    /\ compiled.some
    /\ \E place \in SchemaPlaces(schema) :
          LET node == CompiledNodeAt(compiled.val, place) IN
          /\ node.some
          /\ \E i, j \in DOMAIN node.val.validations :
                LET a == node.val.validations[i]
                    b == node.val.validations[j]
                IN  /\ a.ok /\ b.ok
                    /\ a.val.is_transition_rule
                    /\ a.val.program.op # "var"
                    /\ ~b.val.is_transition_rule
                    /\ b.val.message_program.some
                    /\ "oldSelf" \in References(b.val.message_program.val)

----------------------------------------------------------------------------
(* C15: totality.  For every schema, object and old object compile_schema, *)
(* validate and validate_compiled have a result (a compiled tree, a list   *)
(* of errors), which is what a call returns.  A finished call has executed *)
(* rules only at visited positions of the object, at each of them only     *)
(* rules of the one schema node of that position and each entry at most    *)
(* once, and every compile error, malformed entry, evaluation error and    *)
(* non-boolean result of a visited position is an entry of the returned    *)
(* list, which holds nothing but validation errors of visited positions.   *)

\* The kind of failure that the message of a validation error states
ErrorClass(e) ==
    IF StartsWith(e.message, "failed to compile rule \"") THEN "parse"
    ELSE IF StartsWith(e.message, "invalid rule definition: ") THEN "invalid"
    ELSE IF StartsWith(e.message, "rule evaluation error: ") THEN "evalerror"
    ELSE IF Contains(e.message, NotBoolText) THEN "nonbool"
    ELSE "fail"

Failures == {"parse", "invalid", "evalerror", "nonbool"}

\* A list of validation errors
IsErrorList(l) ==
    /\ DOMAIN l = 1..Len(l)
    /\ \A i \in DOMAIN l :
          DOMAIN l[i] = {"rule", "message", "field_path", "reason"}

\* An operation that has not been called has a result for the schema, the
\* object and the old object of the state (validate_compiled for the tree
\* that compile_schema has returned), and a call that was made has returned
\* a tree of the schema or a list of validation errors
Total ==
    /\ IF compiled.some
       THEN DOMAIN compiled.val = {"validations", "properties", "iter_order",
                                   "items", "additional_properties"}
       ELSE compile_schema(schema) # {}
    /\ IF errors.some THEN IsErrorList(errors.val)
       ELSE IsErrorList(validate(schema, object, old_object).errors)
    /\ IF errors_c.some THEN IsErrorList(errors_c.val)
       ELSE compiled.some =>
              IsErrorList(validate_compiled(compiled.val, object,
                                            old_object).errors)

OnlyEntries ==
    \A run \in Runs : run.done =>
          /\ \A ev \in Range(run.evals) :
                \E pos \in VisitedPositions : Render(pos) = ev.path
          /\ \A e \in Range(run.errors) :
                /\ DOMAIN e = {"rule", "message", "field_path", "reason"}
                /\ \E pos \in VisitedPositions : Render(pos) = e.field_path
          /\ \A pos \in VisitedPositions :
                LET entries == EntriesAt(pos)
                    kinds == [i \in DOMAIN entries |->
                                 OutcomeKind(entries[i], pos)]
                    ran == EvalsAt(run, pos)
                    es == ErrorsAt(run, pos)
                IN  /\ Len(ran) <= Len(entries)
                    /\ \A i \in DOMAIN ran : ran[i].rule \in RulesAt(pos)
                    /\ \A kind \in Failures :
                          Cardinality({i \in DOMAIN entries : kinds[i] = kind})
                          = Cardinality({i \in DOMAIN es :
                                            ErrorClass(es[i]) = kind})

----------------------------------------------------------------------------
(* C16: a compiled tree is immutable and reusable.  As stated: for any     *)
(* sequence or interleaving of validate_compiled calls on one tree, the    *)
(* list a call returns equals the list of the same call run alone on a     *)
(* freshly compiled tree, and the tree is unchanged after every call.      *)

\* The tree is the one that every call in flight or returned was given
TreeUnchanged ==
    \A c \in Callers :
        calls[c].status # "idle" => compiled = Some(calls[c].tree)

C16_ReusableAsStated ==
    /\ TreeUnchanged
    /\ \A c \in Callers : calls[c].status = "returned" =>
          \A fresh \in compile_schema(schema) :
              calls[c].acc.errors =
                  validate_compiled(fresh, calls[c].object,
                                    calls[c].old_object).errors

(* C16, amended: the list a call returns, and the bindings of the rules it *)
(* executed, are those of the same call run alone on the same tree; on a   *)
(* freshly compiled tree, whose declared properties may be iterated in     *)
(* another order, the call run alone returns the same errors, possibly in  *)
(* another order; the tree is unchanged after every call.                  *)
C16_ReusableUpToOrder ==
    /\ TreeUnchanged
    /\ \A c \in Callers : calls[c].status = "returned" =>
          LET call == calls[c]
              alone == validate_compiled(call.tree, call.object,
                                         call.old_object)
          IN  /\ call.acc = alone
              /\ \A fresh \in compile_schema(schema) :
                    SameMultiset(call.acc.errors,
                        validate_compiled(fresh, call.object,
                                          call.old_object).errors)

\* Two calls on different objects were in flight together: one has
\* returned a list with errors of both properties while the other, which
\* has errors too, is still walking.
C16_Witness ==
    \E c, d \in Callers :
        /\ calls[c].status = "returned"
        /\ calls[d].status = "running"
        /\ calls[c].object # calls[d].object
        /\ calls[d].acc.errors # << >>
        /\ calls[d].stack # << >>
        /\ \E e1, e2 \in Range(calls[c].acc.errors) :
              e1.field_path = "a" /\ e2.field_path = "b"

----------------------------------------------------------------------------
(* The callers of the conversions of values.rs: a JSON value is converted  *)
(* by json_to_cel and, under a schema, by json_to_cel_with_schema; a       *)
(* string is parsed by parse_go_duration.  The library is built with or    *)
(* without overflow checks (a debug or a release profile).                 *)

\* No validation has been called for
ValidatorIdle ==
    /\ old_object = None
    /\ compiled = None
    /\ errors = None
    /\ evals = << >>
    /\ errors_c = None
    /\ evals_c = << >>
    /\ calls = << >>

\* The numbers of test_number_priority and the ends of the ranges of i64
\* and u64, as integers and as floats
Numbers ==
    {PosInt(<< >>), PosInt(BigOf(42)), PosInt(I64Max.mag), PosInt(Two63),
     PosInt(BigSub(Two64, BigOf(1))),
     NegInt(BigOf(1)), NegInt(Two63),
     Float(F64OfDecimal(BigOf(15), 1)), Float(F64OfDecimal(BigOf(314), 2)),
     Float(F64Round(FALSE, BigOf(1), 0)), Float(F64Round(TRUE, BigOf(3), 0)),
     Float(F64Round(FALSE, Two63, 0)), Float(F64Round(FALSE, Two64, 0)),
     Float(F64Round(TRUE, Two64, 0))}

\* The strings of the parse_duration tests, and strings at the limits of
\* f64 and i64
DurationTexts ==
    {"0", "-0", "1h", "30m", "10s", "1h30m", "-30s", "5ms", "300us", "7ns",
     "1.5h", "1h30m10s", "2.3h", "2.01s", "1m5ms",
     "", "abc", "h", "1x", "10", "1h-30m", "-", "+1s", "1 h", "1h0", "00",
     "1..5s", "1hh",
     "2562047h", "2562048h", "2562047h2562047h", "-2562047h2562047h",
     "9007199254740993ns"}

DateTexts ==
    {"2025-06-15T12:00:00Z", "2023-06-15T12:00:00Z",
     "2024-01-01T09:00:00+09:00", "2024-01-01T00:00:00.5Z",
     "2024-02-30T00:00:00Z", "2025-06-15", "not-a-date"}

Texts == DurationTexts \cup DateTexts

\* Schemas with and without a string sub-format
SchemaNoFormat == MkObj(<<<<"type", JStr("string")>>>>)
SchemaDateTime == MkObj(<<<<"type", JStr("string")>>,
                          <<"format", JStr("date-time")>>>>)
SchemaDuration == MkObj(<<<<"type", JStr("string")>>,
                          <<"format", JStr("duration")>>>>)
SchemaOtherFormat == MkObj(<<<<"type", JStr("string")>>,
                             <<"format", JStr("email")>>>>)
SchemaFormatNotString == MkObj(<<<<"type", JStr("string")>>,
                                 <<"format", JNum(1)>>>>)
SchemaDurationItems == MkObj(<<<<"items", SchemaDuration>>>>)
SchemaFormatProps ==
    MkObj(<<Props(<<<<"a", SchemaDateTime>>>>),
            <<"additionalProperties", SchemaDuration>>>>)

\* A format on an object node, formats two levels down, and
\* additionalProperties that is a boolean flag
SchemaFormatDeep ==
    MkObj(<<<<"format", JStr("duration")>>,
            Props(<<<<"a", MkObj(<<Props(<<<<"b", SchemaDuration>>>>),
                                   <<"items", SchemaDateTime>>>>)>>,
                    <<"c", SchemaNoFormat>>>>),
            <<"additionalProperties", JBool(TRUE)>>>>)

ScalarSchemas == {SchemaNoFormat, SchemaDateTime, SchemaDuration,
                  SchemaOtherFormat, SchemaFormatNotString}

\* The values to convert and, for each, the schemas it is converted under
\* Strings below members and elements that the schema does and does not
\* describe
NestedMembers ==
    MkObj(<<<<"a", MkObj(<<<<"b", JStr("1h30m")>>, <<"x", JStr("1h30m")>>>>)>>,
            <<"c", JStr("1h30m")>>,
            <<"d", JStr("1h30m")>>>>)
NestedElements ==
    MkObj(<<<<"a", JArr(<<JStr("2025-06-15T12:00:00Z"),
                          JArr(<<JStr("2025-06-15T12:00:00Z")>>)>>)>>,
            <<"d", MkObj(<<<<"b", JStr("1h30m")>>>>)>>>>)

ValueInputs ==
    {JNull, JBool(TRUE), JNum(-7), JNum(0)}
    \cup {JNumber(n) : n \in Numbers}
    \cup {JStr(s) : s \in Texts}
    \cup {JArr(<<JStr("1h30m"), JStr("abc"), JNum(1)>>),
          JArr(<<JStr("5ms"), JStr("2562047h2562047h")>>),
          JObj([k \in {"a", "b"} |-> JStr("2025-06-15T12:00:00Z")]),
          JObj([k \in {"a", "b"} |-> JStr("1h30m")]),
          NestedMembers, NestedElements}

SchemasFor(value) ==
    IF value.t = "arr" THEN {SchemaDurationItems, SchemaNoFormat}
    ELSE IF value.t = "obj"
    THEN {SchemaFormatProps, SchemaFormatDeep, SchemaNoFormat}
    ELSE IF value.t = "str" THEN ScalarSchemas
    ELSE {SchemaNoFormat, SchemaDuration}

InitValues ==
    /\ object \in ValueInputs
    /\ schema \in SchemasFor(object)
    /\ overflow_checks \in BOOLEAN
    /\ cel = None
    /\ cel_schema = None
    /\ duration = None
    /\ expression = None
    /\ outcome = None
    /\ displayed = None
    /\ ValidatorIdle

\* json_to_cel(&object)
JsonToCel ==
    /\ cel = None
    /\ cel' = Some(json_to_cel(object))
    /\ UNCHANGED <<schema, object, overflow_checks, cel_schema, duration,
                   old_object, validator_vars, extension_vars>>

\* json_to_cel_with_schema(&object, &schema)
JsonToCelWithSchema ==
    /\ cel_schema = None
    /\ cel_schema' = Some(json_to_cel_with_schema(object, schema,
                                                  overflow_checks))
    /\ UNCHANGED <<schema, object, overflow_checks, cel, duration,
                   old_object, validator_vars, extension_vars>>

\* parse_go_duration(object.as_str())
ParseGoDuration ==
    /\ object.t = "str"
    /\ duration = None
    /\ duration' = Some(parse_go_duration(object.v, overflow_checks))
    /\ UNCHANGED <<schema, object, overflow_checks, cel, cel_schema,
                   old_object, validator_vars, extension_vars>>

NextValues == JsonToCel \/ JsonToCelWithSchema \/ ParseGoDuration

SpecValues == InitValues /\ [][NextValues]_vars

----------------------------------------------------------------------------
(* C18: number conversion priority.  As stated: a JSON number converts to  *)
(* Int whenever its value is an integer in [-2^63, 2^63-1], to UInt only   *)
(* when it is an integer in [2^63, 2^64-1], and to Float otherwise.        *)

\* The value of the number is an integer
IsIntegral(n) == n.n # "Float" \/ n.f.e >= 0

\* The integer that an integral number is
IntegerOf(n) ==
    IF n.n = "PosInt" THEN Signed(FALSE, n.u)
    ELSE IF n.n = "NegInt" THEN Signed(TRUE, n.mag)
    ELSE Signed(n.f.neg, BigShl(n.f.m, n.f.e))

\* The results of the conversions that were called for
Converted ==
    (IF cel.some THEN {cel.val} ELSE {})
    \cup (IF cel_schema.some THEN {cel_schema.val} ELSE {})

C18_PriorityByValue ==
    object.t = "num" =>
        LET n == NumberOf(object) IN
        \A got \in Converted :
            IF IsIntegral(n) /\ InI64(IntegerOf(n))
            THEN got = CInt(IntValue(IntegerOf(n)))
            ELSE IF IsIntegral(n) /\ ~IntegerOf(n).neg
                    /\ BigLt(IntegerOf(n).mag, Two64)
            THEN got = CUInt(IntegerOf(n).mag)
            ELSE got.ct = "Float"

(* C18, amended: a JSON number that is held as an integer (written without *)
(* a fraction or an exponent, within the range of i64 or u64) converts to  *)
(* Int whenever it is in [-2^63, 2^63-1] and to UInt only when it is in    *)
(* [2^63, 2^64-1]; every other number, one written with a fraction or an   *)
(* exponent included even if its value is an integer, converts to the      *)
(* Float of its value.  A number held as an integer in the range of i64 is *)
(* never produced as UInt or Float.                                        *)
C18_NumberPriority ==
    object.t = "num" =>
        LET n == NumberOf(object) IN
        \A got \in Converted :
            IF n.n = "Float" THEN got = CFloat(n.f)
            ELSE IF InI64(IntegerOf(n))
            THEN got = CInt(IntValue(IntegerOf(n)))
            ELSE got = CUInt(IntegerOf(n).mag)

\* Both conversions have converted 2^63, the least number that is no i64,
\* to a UInt.
C18_Witness ==
    /\ object = JNumber(PosInt(Two63))
    /\ cel = Some(CUInt(Two63))
    /\ cel_schema = Some(CUInt(Two63))

----------------------------------------------------------------------------
(* C20: the duration grammar.  parse_go_duration accepts exactly the       *)
(* strings that are an optional leading '-' followed by the literal '0' or *)
(* by one or more <number><unit> segments, <number> a non-negative integer *)
(* or decimal and <unit> one of h, m, s, ms, us, ns with the two-letter    *)
(* units matched first; it returns the sum of the segments in nanoseconds, *)
(* negated when the '-' is present, and failure for every other string.    *)

\* A non-negative integer or decimal
IsNumberText(t) ==
    /\ t # ""
    /\ \A i \in 1..Len(t) : CharAt(t, i) \in Digits \cup {"."}
    /\ Cardinality({i \in 1..Len(t) : CharAt(t, i) = "."}) <= 1
    /\ CharAt(t, 1) # "." /\ CharAt(t, Len(t)) # "."

\* The length of the longest prefix of digits and points
NumberPrefix(t) ==
    IF \E i \in 1..Len(t) : CharAt(t, i) \notin Digits \cup {"."}
    THEN (CHOOSE i \in 1..Len(t) :
             /\ CharAt(t, i) \notin Digits \cup {"."}
             /\ \A j \in 1..(i - 1) : CharAt(t, j) \in Digits \cup {"."}) - 1
    ELSE Len(t)

\* The nanoseconds of the unit that the text starts with, two-letter units
\* first, and the length of its name; no unit has length 0
UnitNanos(t) ==
    IF StartsWith(t, "ms") THEN [len |-> 2, nanos |-> BigOfDecimal("1000000")]
    ELSE IF StartsWith(t, "us") THEN [len |-> 2, nanos |-> BigOfDecimal("1000")]
    ELSE IF StartsWith(t, "ns") THEN [len |-> 2, nanos |-> BigOfDecimal("1")]
    ELSE IF StartsWith(t, "h")
    THEN [len |-> 1, nanos |-> BigOfDecimal("3600000000000")]
    ELSE IF StartsWith(t, "m")
    THEN [len |-> 1, nanos |-> BigOfDecimal("60000000000")]
    ELSE IF StartsWith(t, "s")
    THEN [len |-> 1, nanos |-> BigOfDecimal("1000000000")]
    ELSE [len |-> 0, nanos |-> << >>]

\* The whole nanoseconds of <number> units
SegmentNanos(number, unit_nanos) ==
    LET dot == {i \in 1..Len(number) : CharAt(number, i) = "."}
        point == IF dot = {} THEN Len(number) + 1 ELSE CHOOSE i \in dot : TRUE
        digits == SubSeq(number, 1, point - 1)
                  \o SubSeq(number, point + 1, Len(number))
        fraction == IF dot = {} THEN 0 ELSE Len(number) - point
    IN  DivPow10(BigMul(BigOfDecimal(digits), unit_nanos), fraction).q

\* The sum of the segments of a text that is a sequence of segments
RECURSIVE SegmentSum(_)
SegmentSum(t) ==
    IF t = "" THEN Some(<< >>)
    ELSE LET n == NumberPrefix(t)
             number == SubSeq(t, 1, n)
             unit == UnitNanos(SubSeq(t, n + 1, Len(t)))
         IN  IF ~IsNumberText(number) \/ unit.len = 0 THEN None
             ELSE LET rest == SegmentSum(SubSeq(t, n + unit.len + 1, Len(t)))
                  IN  IF rest.some
                      THEN Some(BigAdd(SegmentNanos(number, unit.nanos),
                                       rest.val))
                      ELSE None

\* What the grammar gives for a string
GrammarDuration(input) ==
    LET negative == StartsWith(input, "-")
        rest == IF negative THEN SubSeq(input, 2, Len(input)) ELSE input
    IN  IF rest = "0" THEN SomeDuration(I64Zero)
        ELSE IF rest # "" /\ SegmentSum(rest).some
        THEN SomeDuration(Signed(negative, SegmentSum(rest).val))
        ELSE NoDuration

C20_DurationGrammar ==
    duration.some => duration.val = GrammarDuration(object.v)

----------------------------------------------------------------------------
(* C19: a format parse failure is a fallback, never an error.  Converting  *)
(* a string under format date-time (duration) yields a timestamp (a        *)
(* duration) iff the string parses as RFC 3339 (as a Go duration);         *)
(* otherwise it yields the string itself, under no format it always yields *)
(* the string itself, and the conversion never fails.                      *)

C19_ParseFailureFallsBack ==
    cel_schema.some /\ object.t = "str" =>
        LET s == object.v
            format == from_schema(schema)
            got == cel_schema.val
        IN  /\ got # CPanic
            /\ format = "DateTime" =>
                  IF parse_from_rfc3339(s).some
                  THEN got = CTimestamp(parse_from_rfc3339(s).val)
                  ELSE got = CString(s)
            /\ format = "Duration" =>
                  IF GrammarDuration(s).kind = "Some"
                  THEN got.ct = "Duration" ELSE got = CString(s)
            /\ format = "None" => got = CString(s)

----------------------------------------------------------------------------
(* The callers of the validator with schemas that declare string formats   *)
(* (timestamp_comparison_passes, timestamp_comparison_fails,               *)
(* invalid_datetime_string_falls_back_to_string and                        *)
(* compiled_schema_timestamp_comparison of the integration tests)          *)

ExpiresText == "self.expiresAt > timestamp('2024-01-01T00:00:00Z')"

RExpires == MkObj(<<<<"rule", JStr(ExpiresText)>>,
                    <<"message", JStr("must expire after 2024")>>>>)
RAfter == MkObj(<<<<"rule", JStr("self > timestamp('2024-01-01T00:00:00Z')")>>,
                  <<"message", JStr("must be after 2024")>>>>)

\* The schema of the timestamp tests, with the property of the duration
\* tests
SchemaExpires ==
    Node(<<<<"type", JStr("object")>>,
           Props(<<<<"expiresAt", SchemaDateTime>>,
                   <<"timeout", SchemaDuration>>>>),
           Rules(<<RExpires>>)>>)

\* The same, with a rule at the node of the string itself
SchemaExpiresNode ==
    Node(<<<<"type", JStr("object")>>,
           Props(<<<<"expiresAt",
                     Node(<<<<"type", JStr("string")>>,
                            <<"format", JStr("date-time")>>,
                            Rules(<<RAfter>>)>>)>>,
                   <<"timeout", SchemaDuration>>>>),
           Rules(<<RExpires, RObjNonBool>>)>>)

FormatSchemas == {SchemaExpires, SchemaExpiresNode}

FormatObjects ==
    UNION {{JObj(f) :
              f \in [K -> {JStr("2025-06-15T12:00:00Z"),
                           JStr("2023-06-15T12:00:00Z"),
                           JStr("not-a-date"), JStr("30m")}]} :
           K \in SUBSET {"expiresAt", "timeout"}}

OldFormatObjects ==
    {JObj([k \in {"expiresAt"} |-> JStr("2023-06-15T12:00:00Z")]),
     JObj([k \in {"timeout"} |-> JStr("30m")])}

InitFormat ==
    /\ schema \in FormatSchemas
    /\ object \in FormatObjects
    /\ old_object \in {None} \cup {Some(o) : o \in OldFormatObjects}
    /\ compiled = None
    /\ errors = None
    /\ evals = << >>
    /\ errors_c = None
    /\ evals_c = << >>
    /\ calls = << >>
    /\ ValuesIdle

SpecFormat == InitFormat /\ [][Next]_vars

----------------------------------------------------------------------------
(* C13: the validator binds schema-format-converted values.  When validate *)
(* or validate_compiled evaluates a rule at a node, self (and oldSelf when *)
(* a prior value is present) is bound to the format-aware conversion of    *)
(* the value at that node, so the rule                                     *)
(* self.expiresAt > timestamp('2024-01-01T00:00:00Z') passes for expiresAt *)
(* '2025-06-15T12:00:00Z' and fails with the rule's message for            *)
(* '2023-06-15T12:00:00Z'.                                                 *)

\* The format-aware conversion of a value under the schema node of a
\* position
FormatAware(value, pos) ==
    json_to_cel_with_schema(value, SchemaAt(schema, pos).val, overflow_checks)

\* The errors of a run for a rule text at the root
RootErrors(run, text) ==
    SelectSeq(run.errors, LAMBDA e : e.field_path = "" /\ e.rule = text)

C13_FormatAwareBinding ==
    \A run \in Runs : run.done =>
        /\ \A ev \in Range(run.evals) :
              LET pos == PositionOfPath(ev.path).val IN
              /\ ev.ctx["self"] = FormatAware(ValueAt(object, pos).val, pos)
              /\ PriorAt(pos).some =>
                    ev.ctx["oldSelf"] = FormatAware(PriorAt(pos).val, pos)
        /\ Get(object, "expiresAt") = Some(JStr("2025-06-15T12:00:00Z")) =>
              RootErrors(run, ExpiresText) = << >>
        /\ Get(object, "expiresAt") = Some(JStr("2023-06-15T12:00:00Z")) =>
              /\ Len(RootErrors(run, ExpiresText)) = 1
              /\ RootErrors(run, ExpiresText)[1].message =
                    "must expire after 2024"

----------------------------------------------------------------------------
(* C14: compile_schema records the string sub-format at every node of the  *)
(* compiled tree: the node's format is DateTime when the schema node's     *)
(* format is the string 'date-time', Duration when it is 'duration', and   *)
(* None otherwise.                                                         *)

C14_FormatRecorded ==
    compiled.some =>
        \A place \in SchemaPlaces(schema) :
            LET node == CompiledNodeAt(compiled.val, place) IN
            /\ node.some
            /\ "format" \in DOMAIN node.val
            /\ node.val.format = from_schema(SchemaNodeAt(schema, place))


----------------------------------------------------------------------------
(* i128 and i32.  An i128 is [neg, mag] like an i64; an i32 is an integer  *)
(* of the model.  An operation that can overflow returns Returned(x), or   *)
(* Unwound when the thread panics: with overflow checks an overflow        *)
(* panics, without them the result wraps.                                  *)

Returned(x) == [panic |-> FALSE, val |-> x]
Unwound == [panic |-> TRUE]

I32Max == 2147483647
I32Min == -2147483647 - 1

\* a + b in i32
I32Add(a, b, checked) ==
    IF b > 0 /\ a > I32Max - b
    THEN IF checked THEN Unwound
         ELSE Returned((a - I32Max - 1) + (b - I32Max - 1))
    ELSE IF b < 0 /\ a < I32Min - b
    THEN IF checked THEN Unwound
         ELSE Returned((a + I32Max + 1) + (b + I32Max + 1))
    ELSE Returned(a + b)

\* a - b in i32
I32Sub(a, b, checked) ==
    IF b < 0 /\ a > I32Max + b
    THEN IF checked THEN Unwound
         ELSE Returned((a - I32Max - 1) - (b + I32Max + 1))
    ELSE IF b > 0 /\ a < I32Min + b
    THEN IF checked THEN Unwound
         ELSE Returned((a + I32Max + 1) - (b - I32Max - 1))
    ELSE Returned(a - b)

Two127 == BigShl(BigOf(1), 127)
Two128 == BigShl(BigOf(1), 128)
I128Zero == [neg |-> FALSE, mag |-> << >>]

InI128(v) == IF v.neg THEN BigLe(v.mag, Two127) ELSE BigLt(v.mag, Two127)

\* The i128 that is congruent modulo 2^128 to an integer
I128Wrap(v) ==
    LET Residue(low) ==
            IF v.neg /\ low # << >> THEN BigSub(Two128, low) ELSE low
        OfResidue(u) ==
            IF BigLt(u, Two127) THEN Signed(FALSE, u)
            ELSE Signed(TRUE, BigSub(Two128, u))
    IN  OfResidue(Residue(BigSub(v.mag, BigShl(BigShr(v.mag, 128), 128))))

\* The result of an i128 operation whose exact result is v
I128Result(v, checked) ==
    IF InI128(v) THEN Returned(v)
    ELSE IF checked THEN Unwound
    ELSE Returned(I128Wrap(v))

SignedNeg(a) == Signed(~a.neg, a.mag)
SignedSub(a, b) == SignedAdd(a, SignedNeg(b))
SignedMul(a, b) == Signed(a.neg # b.neg, BigMul(a.mag, b.mag))

\* -1, 0 or 1 as a is below, equal to or above b
SignedCmp(a, b) ==
    IF a.neg /\ ~b.neg THEN -1
    ELSE IF ~a.neg /\ b.neg THEN 1
    ELSE IF a.neg THEN BigCmp(b.mag, a.mag)
    ELSE BigCmp(a.mag, b.mag)

\* 10^n, by squaring
RECURSIVE BigPow10(_)
BigPow10(n) ==
    LET Square(half) ==
            IF n % 2 = 0 THEN BigMul(half, half)
            ELSE BigMulSmall(BigMul(half, half), 10)
    IN  IF n = 0 THEN BigOf(1) ELSE Square(BigPow10(n \div 2))

\* 10i128.pow(exp): 2^128 divides 10^128
I128Pow10(exp, checked) ==
    IF exp >= 128
    THEN IF checked THEN Unwound ELSE Returned(I128Zero)
    ELSE I128Result(Signed(FALSE, BigPow10(exp)), checked)

\* 10i128.checked_pow(exp)
I128CheckedPow10(exp) ==
    IF exp >= 128 \/ ~InI128(Signed(FALSE, BigPow10(exp))) THEN None
    ELSE Some(Signed(FALSE, BigPow10(exp)))

\* <i128>.checked_mul(b)
I128CheckedMul(a, b) ==
    IF InI128(SignedMul(a, b)) THEN Some(SignedMul(a, b)) ELSE None

\* <str>.parse::<i128>(): an optional sign and one digit or more, in range
ParseI128(s) ==
    LET neg == StartsWith(s, "-")
        digits == IF neg \/ StartsWith(s, "+") THEN SubSeq(s, 2, Len(s))
                  ELSE s
        OfMag(mag) ==
            IF InI128(Signed(neg, mag)) THEN Some(Signed(neg, mag)) ELSE None
    IN  IF digits = "" \/ ~AllDigits(digits) THEN None
        ELSE OfMag(BigOfDecimal(digits))

\* <str>.parse::<i32>()
ParseI32(s) ==
    LET neg == StartsWith(s, "-")
        digits == IF neg \/ StartsWith(s, "+") THEN SubSeq(s, 2, Len(s))
                  ELSE s
        OfMag(mag) ==
            IF BigLe(mag, BigOf(I32Max))
            THEN Some((IF neg THEN -1 ELSE 1)
                      * (BigDigit(mag, 1) + 32768 * BigDigit(mag, 2)
                         + 1073741824 * BigDigit(mag, 3)))
            ELSE IF neg /\ mag = BigAdd(BigOf(I32Max), BigOf(1))
            THEN Some(I32Min)
            ELSE None
    IN  IF digits = "" \/ ~AllDigits(digits) THEN None
        ELSE OfMag(BigOfDecimal(digits))


----------------------------------------------------------------------------
(* KubeQuantity (src/src/quantity.rs): mantissa * 10^scale *)

KubeQuantity(mantissa, scale) == [mantissa |-> mantissa, scale |-> scale]

RECURSIVE simplify(_, _)
\* Mutation: the trailing zeros stay in the mantissa.
simplify_KeepZeros(q, checked) == Returned(q)

\* KubeQuantity::simplify: the quantity it leaves in place of q
simplify(q, checked) ==
    LET Divided(d, scale) ==
            IF scale.panic THEN Unwound
            ELSE simplify(KubeQuantity(Signed(q.mantissa.neg, d.q), scale.val),
                          checked)
        Loop(d) ==
            IF d.r # 0 THEN Returned(q)
            ELSE Divided(d, I32Add(q.scale, 1, checked))
    IN  IF q.mantissa.mag = << >> THEN Returned(KubeQuantity(I128Zero, 0))
        ELSE Loop(BigDivSmall(q.mantissa.mag, 10))

\* KubeQuantity::new
new(mantissa, scale, checked) == simplify(KubeQuantity(mantissa, scale), checked)

\* KubeQuantity::sign
sign(q) ==
    IF q.mantissa.neg THEN -1 ELSE IF q.mantissa.mag = << >> THEN 0 ELSE 1

\* from_scale - to_scale, then mantissa * 10i128.pow(diff as u32)
scale_mantissa(mantissa, from_scale, to_scale, checked) ==
    LET Times(pow) ==
            IF pow.panic THEN Unwound
            ELSE I128Result(SignedMul(mantissa, pow.val), checked)
        Scaled(diff) ==
            IF diff.panic THEN Unwound
            ELSE IF diff.val <= 0 THEN Returned(mantissa)
            ELSE Times(I128Pow10(diff.val, checked))
    IN  Scaled(I32Sub(from_scale, to_scale, checked))

Min(x, y) == IF x <= y THEN x ELSE y

\* normalize_pair: the two mantissas at the lower scale
normalize_pair(a, b, checked) ==
    LET Pair(x, y) ==
            IF x.panic \/ y.panic THEN Unwound ELSE Returned(<<x.val, y.val>>)
    IN  Pair(scale_mantissa(a.mantissa, a.scale, Min(a.scale, b.scale), checked),
             scale_mantissa(b.mantissa, b.scale, Min(a.scale, b.scale), checked))

\* impl Ord for KubeQuantity: -1 for Less, 0 for Equal, 1 for Greater
cmp(a, b, checked) ==
    LET Order(pair) ==
            IF pair.panic THEN Unwound
            ELSE Returned(SignedCmp(pair.val[1], pair.val[2]))
    IN  Order(normalize_pair(a, b, checked))

\* KubeQuantity::add and KubeQuantity::sub
Arith(a, b, checked, op) ==
    LET Made(sum) ==
            IF sum.panic THEN Unwound
            ELSE new(sum.val, Min(a.scale, b.scale), checked)
        Summed(pair) ==
            IF pair.panic THEN Unwound
            ELSE Made(I128Result(IF op = "add"
                                  THEN SignedAdd(pair.val[1], pair.val[2])
                                  ELSE SignedSub(pair.val[1], pair.val[2]),
                                  checked))
    IN  Summed(normalize_pair(a, b, checked))

add(a, b, checked) == Arith(a, b, checked, "add")
sub(a, b, checked) == Arith(a, b, checked, "sub")

\* KubeQuantity::as_integer: Ok(i64) or Err(message)
as_integer(q, checked) ==
    LET TooLarge == Err("quantity too large for integer")
        InRange(val) == IF InI64(val) THEN Ok(val) ELSE TooLarge
        Up(multiplier) ==
            IF ~multiplier.some THEN TooLarge
            ELSE IF ~I128CheckedMul(q.mantissa, multiplier.val).some
            THEN TooLarge
            ELSE InRange(I128CheckedMul(q.mantissa, multiplier.val).val)
        Down(places) ==
            IF ~I128CheckedPow10(places).some THEN TooLarge
            ELSE IF DivPow10(q.mantissa.mag, places).inexact
            THEN Err("quantity is not an integer")
            ELSE InRange(Signed(q.mantissa.neg,
                             DivPow10(q.mantissa.mag, places).q))
        Negated(scale) ==
            IF scale.panic THEN Unwound
            ELSE IF scale.val < 0 THEN Returned(TooLarge)
            ELSE Returned(Down(scale.val))
    IN  IF q.scale >= 0 THEN Returned(Up(I128CheckedPow10(q.scale)))
        ELSE Negated(I32Sub(0, q.scale, checked))

\* <str>.trim()
RECURSIVE Trim(_)
Trim(s) ==
    IF StartsWith(s, " ") THEN Trim(SubSeq(s, 2, Len(s)))
    ELSE IF s # "" /\ CharAt(s, Len(s)) = " "
    THEN Trim(SubSeq(s, 1, Len(s) - 1))
    ELSE s

\* <str>.find(pred): the first position (from 0) whose character is in
\* chars, when want, or outside chars, when not want
FindChar(s, chars, want) ==
    IF \E i \in 1..Len(s) : (CharAt(s, i) \in chars) = want
    THEN Some((CHOOSE i \in 1..Len(s) :
                  /\ (CharAt(s, i) \in chars) = want
                  /\ \A j \in 1..(i - 1) : (CharAt(s, j) \in chars) # want) - 1)
    ELSE None

\* parse_decimal: Ok(<<mantissa, decimal_shift>>)
parse_decimal(s) ==
    LET Pair(mantissa, shift) ==
            IF mantissa.some THEN Ok(<<mantissa.val, shift>>)
            ELSE Err("invalid number: '" \o s \o "'")
        At(dot_pos) ==
            IF dot_pos.some
            THEN Pair(ParseI128(SubSeq(s, 1, dot_pos.val)
                                \o SubSeq(s, dot_pos.val + 2, Len(s))),
                      0 - (Len(s) - dot_pos.val - 1))
            ELSE Pair(ParseI128(s), 0)
    IN  At(FindChar(s, {"."}, TRUE))

\* parse_number
parse_number(s, checked) ==
    LET Shift(base, sum) ==
            IF sum.panic THEN Unwound
            ELSE Returned(Ok(<<base.val[1], sum.val>>))
        Exp(base, exp) ==
            IF ~base.ok THEN Returned(base)
            ELSE IF ~exp.some
            THEN Returned(Err("invalid exponent in '" \o s \o "'"))
            ELSE Shift(base, I32Add(base.val[2], exp.val, checked))
        At(e_pos) ==
            IF e_pos.some
            THEN Exp(parse_decimal(SubSeq(s, 1, e_pos.val)),
                     ParseI32(SubSeq(s, e_pos.val + 2, Len(s))))
            ELSE Returned(parse_decimal(s))
    IN  At(FindChar(s, {"e", "E"}, TRUE))

\* parse_suffix: Ok(<<scale_offset, binary_multiplier>>)
parse_suffix(suffix) ==
    CASE suffix = "" -> Ok(<<0, None>>)
      [] suffix = "n" -> Ok(<<-9, None>>)
      [] suffix = "u" -> Ok(<<-6, None>>)
      [] suffix = "m" -> Ok(<<-3, None>>)
      [] suffix = "k" -> Ok(<<3, None>>)
      [] suffix = "M" -> Ok(<<6, None>>)
      [] suffix = "G" -> Ok(<<9, None>>)
      [] suffix = "T" -> Ok(<<12, None>>)
      [] suffix = "P" -> Ok(<<15, None>>)
      [] suffix = "E" -> Ok(<<18, None>>)
      [] suffix = "Ki" -> Ok(<<0, Some(Signed(FALSE, BigShl(BigOf(1), 10)))>>)
      [] suffix = "Mi" -> Ok(<<0, Some(Signed(FALSE, BigShl(BigOf(1), 20)))>>)
      [] suffix = "Gi" -> Ok(<<0, Some(Signed(FALSE, BigShl(BigOf(1), 30)))>>)
      [] suffix = "Ti" -> Ok(<<0, Some(Signed(FALSE, BigShl(BigOf(1), 40)))>>)
      [] suffix = "Pi" -> Ok(<<0, Some(Signed(FALSE, BigShl(BigOf(1), 50)))>>)
      [] suffix = "Ei" -> Ok(<<0, Some(Signed(FALSE, BigShl(BigOf(1), 60)))>>)
      [] OTHER -> Err("unknown quantity suffix: '" \o suffix \o "'")

NumberChars == Digits \cup {".", "-", "+"}

\* parse_quantity: Returned(Ok(quantity)), Returned(Err(message)) or Unwound
parse_quantity(text, checked) ==
    LET s == Trim(text)
        Result(q) == IF q.panic THEN Unwound ELSE Returned(Ok(q.val))
        Binary(number, product) ==
            IF product.some THEN Result(new(product.val, number[2], checked))
            ELSE Returned(Err("quantity overflow: '" \o s \o "'"))
        Decimal(number, scale) ==
            IF scale.panic THEN Unwound
            ELSE Result(new(number[1], scale.val, checked))
        Suffixed(number, suffix) ==
            IF ~suffix.ok THEN Returned(suffix)
            ELSE IF suffix.val[2].some
            THEN Binary(number, I128CheckedMul(number[1], suffix.val[2].val))
            ELSE Decimal(number, I32Add(number[2], suffix.val[1], checked))
        Numbered(number, suffix) ==
            IF number.panic THEN Unwound
            ELSE IF ~number.val.ok THEN Returned(number.val)
            ELSE Suffixed(number.val.val, parse_suffix(suffix))
        Split(num_part, suffix) ==
            IF num_part = ""
            THEN Returned(Err("no numeric value in '" \o s \o "'"))
            ELSE Numbered(parse_number(num_part, checked), suffix)
        Rest(num_end, rest) ==
            IF (StartsWith(rest, "e") \/ StartsWith(rest, "E"))
               /\ ~StartsWith(rest, "Ei")
               /\ Len(rest) > 1
               /\ \A i \in 2..Len(rest) :
                      CharAt(rest, i) \in Digits \cup {"+", "-"}
            THEN Split(s, "")
            ELSE Split(SubSeq(s, 1, num_end), rest)
        End(num_end) ==
            IF num_end.some
            THEN Rest(num_end.val, SubSeq(s, num_end.val + 1, Len(s)))
            ELSE Split(s, "")
    IN  IF s = "" THEN Returned(Err("empty quantity string"))
        ELSE End(FindChar(s, NumberChars, FALSE))


----------------------------------------------------------------------------
(* The extension functions that share a name (src/src/dispatch.rs) and     *)
(* the registry that register_all fills (src/src/lib.rs).  A function      *)
(* returns Returned(Ok(value)) or Returned(Err(message)), or Unwound.      *)

\* Value::Opaque of a KubeQuantity and of a KubeSemver
CQuantity(q) == [ct |-> "Quantity", cv |-> q]
CSemver(v) == [ct |-> "Semver", cv |-> v]

function_error(function, message) ==
    Err("Error executing function '" \o function \o "': " \o message)

\* Value::type_of, as {:?} prints it
type_of(value) == IF value.ct \in {"Quantity", "Semver"} THEN "Opaque" ELSE value.ct

\* semver_funcs::normalize: a leading v goes, a missing minor or patch is 0
normalize(text) ==
    LET s == IF StartsWith(text, "v") \/ StartsWith(text, "V")
             THEN SubSeq(text, 2, Len(text)) ELSE text
        dash == FindChar(s, {"-"}, TRUE)
        version_part == IF dash.some THEN SubSeq(s, 1, dash.val) ELSE s
        pre_part == IF dash.some THEN SubSeq(s, dash.val + 1, Len(s)) ELSE ""
        dots == Cardinality({i \in 1..Len(version_part) :
                                CharAt(version_part, i) = "."})
    IN  (IF dots = 0 THEN version_part \o ".0.0"
         ELSE IF dots = 1 THEN version_part \o ".0"
         ELSE version_part) \o pre_part

\* A numeric identifier of a version: digits with no leading zero
IsNumericIdentifier(s) ==
    s # "" /\ AllDigits(s) /\ Len(s) <= 4 /\ (Len(s) > 1 => ~StartsWith(s, "0"))

\* semver::Version::parse on major.minor.patch
VersionParse(s) ==
    LET Third(major, minor, rest) ==
            IF IsNumericIdentifier(rest)
            THEN Some(<<SmallOfDecimal(major), SmallOfDecimal(minor),
                        SmallOfDecimal(rest)>>)
            ELSE None
        Second(major, rest, dot) ==
            IF dot.some /\ IsNumericIdentifier(SubSeq(rest, 1, dot.val))
            THEN Third(major, SubSeq(rest, 1, dot.val),
                       SubSeq(rest, dot.val + 2, Len(rest)))
            ELSE None
        First(dot) ==
            IF dot.some /\ IsNumericIdentifier(SubSeq(s, 1, dot.val))
            THEN Second(SubSeq(s, 1, dot.val), SubSeq(s, dot.val + 2, Len(s)),
                        FindChar(SubSeq(s, dot.val + 2, Len(s)), {"."}, TRUE))
            ELSE None
    IN  First(FindChar(s, {"."}, TRUE))

\* semver::Version::cmp: -1, 0 or 1
VersionCmp(a, b) ==
    IF a[1] # b[1] THEN (IF a[1] < b[1] THEN -1 ELSE 1)
    ELSE IF a[2] # b[2] THEN (IF a[2] < b[2] THEN -1 ELSE 1)
    ELSE IF a[3] # b[3] THEN (IF a[3] < b[3] THEN -1 ELSE 1)
    ELSE 0

\* semver(<string>)
parse_semver(s) ==
    IF VersionParse(normalize(s)).some
    THEN Ok(CSemver(VersionParse(normalize(s)).val))
    ELSE function_error("semver", "invalid semver '" \o s \o "'")

\* The value a comparison function returns: a > b, a < b, or the order
\* -1, 0 or 1 of a.cmp(b)
Compared(name, order) ==
    IF name = "isGreaterThan" THEN CBool(order = 1)
    ELSE IF name = "isLessThan" THEN CBool(order = -1)
    ELSE CInt(order)

\* semver_is_greater_than, semver_is_less_than and semver_compare_to: both
\* values go through extract_semver
semver_compare(this, other, name) ==
    IF this.ct # "Semver" \/ other.ct # "Semver"
    THEN function_error("semver", "expected Semver type")
    ELSE Ok(Compared(name, VersionCmp(this.cv, other.cv)))

\* quantity(<string>)
cel_quantity(s, checked) ==
    LET Opaque(q) ==
            IF q.panic THEN Unwound
            ELSE IF q.val.ok THEN Returned(Ok(CQuantity(q.val.val)))
            ELSE Returned(function_error("quantity", q.val.err))
    IN  Opaque(parse_quantity(s, checked))

\* cel_is_greater_than, cel_is_less_than and cel_compare_to: both values go
\* through extract_quantity
quantity_compare(this, other, checked, name) ==
    LET Ordered(order) ==
            IF order.panic THEN Unwound ELSE Returned(Ok(Compared(name, order.val)))
    IN  IF this.ct # "Quantity" \/ other.ct # "Quantity"
        THEN Returned(function_error("quantity", "expected Quantity type"))
        ELSE Ordered(cmp(this.cv, other.cv, checked))

\* quantity_or_int
quantity_or_int(val, func, checked) ==
    LET Made(q) == IF q.panic THEN Unwound ELSE Returned(Ok(q.val)) IN
    IF val.ct = "Quantity" THEN Returned(Ok(val.cv))
    ELSE IF val.ct = "Semver"
    THEN Returned(function_error(func, "expected Quantity or int"))
    ELSE IF val.ct \in {"Int", "UInt"} THEN Made(new(I64Of(val.cv), 0, checked))
    ELSE Returned(function_error(func,
             "expected Quantity or int, got " \o type_of(val)))

\* cel_add and cel_sub
quantity_arith(this, args, func, checked) ==
    LET Opaque(q) ==
            IF q.panic THEN Unwound ELSE Returned(Ok(CQuantity(q.val)))
        With(other) ==
            IF other.panic THEN Unwound
            ELSE IF ~other.val.ok THEN Returned(other.val)
            ELSE Opaque(IF func = "add" THEN add(this.cv, other.val.val, checked)
                        ELSE sub(this.cv, other.val.val, checked))
    IN  IF this.ct # "Quantity"
        THEN Returned(function_error("quantity", "expected Quantity type"))
        ELSE IF args = << >>
        THEN Returned(function_error(func, "missing argument"))
        ELSE With(quantity_or_int(args[1], func, checked))

cel_add(this, args, checked) == quantity_arith(this, args, "add", checked)
cel_sub(this, args, checked) == quantity_arith(this, args, "sub", checked)

\* cel_as_integer
cel_as_integer(this, checked) ==
    LET Opaque(n) ==
            IF n.panic THEN Unwound
            ELSE IF n.val.ok THEN Returned(Ok(CInt(IntValue(n.val.val))))
            ELSE Returned(function_error("asInteger", n.val.err))
    IN  IF this.ct # "Quantity"
        THEN Returned(function_error("quantity", "expected Quantity type"))
        ELSE Opaque(as_integer(this.cv, checked))

\* cel_sign
cel_sign(this) ==
    IF this.ct # "Quantity"
    THEN function_error("quantity", "expected Quantity type")
    ELSE Ok(CInt(sign(this.cv)))

Max(x, y) == IF x >= y THEN x ELSE y

\* Whether search is in this at position i (from 0) and ends by end
MatchAt(this, search, i, end) ==
    i + Len(search) <= end /\ SubSeq(this, i + 1, i + Len(search)) = search

\* strings::string_index_of
string_index_of(this, args) ==
    LET Find(search, offset) ==
            IF search = "" THEN Ok(CInt(offset))
            ELSE IF \E i \in offset..(Len(this) - 1) :
                        MatchAt(this, search, i, Len(this))
            THEN Ok(CInt(CHOOSE i \in offset..(Len(this) - 1) :
                      /\ MatchAt(this, search, i, Len(this))
                      /\ \A j \in offset..(i - 1) :
                             ~MatchAt(this, search, j, Len(this))))
            ELSE Ok(CInt(-1))
    IN  IF args = << >> \/ args[1].ct # "String"
        THEN function_error("indexOf", "expected string argument")
        ELSE Find(args[1].cv,
                  IF Len(args) >= 2 /\ args[2].ct = "Int"
                  THEN Max(args[2].cv, 0) ELSE 0)

\* strings::string_last_index_of
string_last_index_of(this, args) ==
    LET Find(search, end) ==
            IF search = "" THEN Ok(CInt(end))
            ELSE IF \E i \in 0..(end - 1) : MatchAt(this, search, i, end)
            THEN Ok(CInt(CHOOSE i \in 0..(end - 1) :
                      /\ MatchAt(this, search, i, end)
                      /\ \A j \in (i + 1)..(end - 1) :
                             ~MatchAt(this, search, j, end)))
            ELSE Ok(CInt(-1))
    IN  IF args = << >> \/ args[1].ct # "String"
        THEN function_error("lastIndexOf", "expected string argument")
        ELSE Find(args[1].cv,
                  IF Len(args) >= 2 /\ args[2].ct = "Int"
                  THEN Min(Max(args[2].cv, 0), Len(this)) ELSE Len(this))

\* lists::val_eq
val_eq(a, b) ==
    /\ a.ct = b.ct
    /\ a.ct \in {"Int", "UInt", "Float", "String", "Bool"}
    /\ a.cv = b.cv

\* lists::list_index_of
list_index_of(list, args) ==
    IF args = << >> THEN function_error("indexOf", "expected argument")
    ELSE IF \E i \in 1..Len(list) : val_eq(list[i], args[1])
    THEN Ok(CInt((CHOOSE i \in 1..Len(list) :
                     /\ val_eq(list[i], args[1])
                     /\ \A j \in 1..(i - 1) : ~val_eq(list[j], args[1])) - 1))
    ELSE Ok(CInt(-1))

\* lists::list_last_index_of
list_last_index_of(list, args) ==
    IF args = << >> THEN function_error("lastIndexOf", "expected argument")
    ELSE IF \E i \in 1..Len(list) : val_eq(list[i], args[1])
    THEN Ok(CInt((CHOOSE i \in 1..Len(list) :
                     /\ val_eq(list[i], args[1])
                     /\ \A j \in (i + 1)..Len(list) :
                            ~val_eq(list[j], args[1])) - 1))
    ELSE Ok(CInt(-1))

\* dispatch::index_of
index_of(this, args) ==
    CASE this.ct = "String" -> string_index_of(this.cv, args)
      [] this.ct = "List" -> list_index_of(this.cv, args)
      [] OTHER -> function_error("indexOf",
                      "indexOf not supported on type " \o type_of(this))

\* dispatch::last_index_of
last_index_of(this, args) ==
    CASE this.ct = "String" -> string_last_index_of(this.cv, args)
      [] this.ct = "List" -> list_last_index_of(this.cv, args)
      [] OTHER -> function_error("lastIndexOf",
                      "lastIndexOf not supported on type " \o type_of(this))


\* The mutant of Compare takes every opaque receiver for a quantity
Compare_QuantityOnly(name, this, args, checked) ==
    IF args = << >> THEN Returned(function_error(name, "missing argument"))
    ELSE IF this.ct \in {"Semver", "Quantity"}
    THEN quantity_compare(this, args[1], checked, name)
    ELSE Returned(function_error(name,
             name \o " not supported on type " \o type_of(this)))

\* dispatch::is_greater_than, dispatch::is_less_than, dispatch::compare_to
Compare(name, this, args, checked) ==
    IF args = << >> THEN Returned(function_error(name, "missing argument"))
    ELSE IF this.ct = "Semver"
    THEN Returned(semver_compare(this, args[1], name))
    ELSE IF this.ct = "Quantity"
    THEN quantity_compare(this, args[1], checked, name)
    ELSE Returned(function_error(name,
             name \o " not supported on type " \o type_of(this)))

is_greater_than(this, args, checked) ==
    Compare("isGreaterThan", this, args, checked)
is_less_than(this, args, checked) ==
    Compare("isLessThan", this, args, checked)
compare_to(this, args, checked) ==
    Compare("compareTo", this, args, checked)

\* ctx.add_function(name, f): a later registration replaces an earlier one
add_function(ctx, name, f) ==
    [n \in DOMAIN ctx \cup {name} |-> IF n = name THEN f ELSE ctx[n]]

RECURSIVE Registered(_, _)
Registered(ctx, functions) ==
    IF functions = << >> THEN ctx
    ELSE Registered(add_function(ctx, functions[1][1], functions[1][2]),
                    Tail(functions))

\* The registrations of semver_funcs::register, quantity::register and
\* dispatch::register that the model calls
semver_funcs_register == <<<<"semver", "semver_funcs::parse_semver">>>>

quantity_register ==
    <<<<"quantity", "quantity::cel_quantity">>,
      <<"asInteger", "quantity::cel_as_integer">>,
      <<"sign", "quantity::cel_sign">>>>

dispatch_register ==
    <<<<"indexOf", "dispatch::index_of">>,
      <<"lastIndexOf", "dispatch::last_index_of">>,
      <<"isGreaterThan", "dispatch::is_greater_than">>,
      <<"isLessThan", "dispatch::is_less_than">>,
      <<"compareTo", "dispatch::compare_to">>,
      <<"add", "dispatch::add">>,
      <<"sub", "dispatch::sub">>>>

\* register_all: dispatch::register is the last
register_all ==
    Registered([n \in {} |-> ""],
               semver_funcs_register \o quantity_register \o dispatch_register)

\* An expression: a literal, or a call of a function on an optional target
Lit(value) == [op |-> "lit", v |-> value]
Call(fn, this, args) == [op |-> "call", fn |-> fn, this |-> Some(this), args |-> args]
Global(fn, args) == [op |-> "call", fn |-> fn, this |-> None, args |-> args]

\* The call of a registered function on resolved values
Apply(f, this, args, checked) ==
    CASE f = "semver_funcs::parse_semver" ->
             IF args # << >> /\ args[1].ct = "String"
             THEN Returned(parse_semver(args[1].cv))
             ELSE Returned(Err("unexpected type"))
      [] f = "quantity::cel_quantity" ->
             IF args # << >> /\ args[1].ct = "String"
             THEN cel_quantity(args[1].cv, checked)
             ELSE Returned(Err("unexpected type"))
      [] f = "quantity::cel_as_integer" -> cel_as_integer(this, checked)
      [] f = "quantity::cel_sign" -> Returned(cel_sign(this))
      [] f = "dispatch::index_of" -> Returned(index_of(this, args))
      [] f = "dispatch::last_index_of" -> Returned(last_index_of(this, args))
      [] f = "dispatch::is_greater_than" -> is_greater_than(this, args, checked)
      [] f = "dispatch::is_less_than" -> is_less_than(this, args, checked)
      [] f = "dispatch::compare_to" -> compare_to(this, args, checked)
      [] f = "dispatch::add" -> cel_add(this, args, checked)
      [] f = "dispatch::sub" -> cel_sub(this, args, checked)

\* Program::execute on an expression under the context of register_all:
\* the target, then the arguments, then the function
RECURSIVE Resolve(_, _)
Resolve(e, checked) ==
    LET Called(this, args) ==
            IF \E i \in DOMAIN args : args[i].panic THEN Unwound
            ELSE IF \E i \in DOMAIN args : ~args[i].val.ok
            THEN Returned(args[CHOOSE i \in DOMAIN args :
                              /\ ~args[i].val.ok
                              /\ \A j \in 1..(i - 1) : args[j].val.ok].val)
            ELSE Apply(register_all[e.fn], this,
                       [i \in DOMAIN args |-> args[i].val.val], checked)
        Targeted(this) ==
            IF this.panic THEN Unwound
            ELSE IF ~this.val.ok THEN this
            ELSE Called(this.val.val,
                        [i \in DOMAIN e.args |-> Resolve(e.args[i], checked)])
    IN  IF e.op = "lit" THEN Returned(Ok(e.v))
        ELSE IF e.fn \notin DOMAIN register_all
        THEN Returned(Err("Undeclared reference to '" \o e.fn \o "'"))
        ELSE Targeted(IF e.this.some THEN Resolve(e.this.val, checked)
                      ELSE Returned(Ok(CNull)))


----------------------------------------------------------------------------
(* The callers of the extension functions: one expression is executed      *)
(* under the context that register_all fills.                              *)

Quantity(text) == Global("quantity", <<Lit(CString(text))>>)
Semver(text) == Global("semver", <<Lit(CString(text))>>)

\* The quantities of the tests of quantity.rs, and quantities at the ends
\* of the range of i128
QuantityTexts ==
    {"1k", "1000", "2k", "1Gi", "1G", "500Mi", "512Mi", "500m", "1", "0",
     "1.5", "1.5Gi", "1e3", "-1", "-500m", "100n", "200", "1e38", "1e39",
     "1e128", "170141183460469231731687303715884105727"}

\* Texts that parse_quantity takes apart
ParseTexts ==
    QuantityTexts
    \cup {" 1k ", "1E", "1Ei", "1E3", "+5", "-.5", "1.", "5e2", "1.5k", "",
          "abc", "not-a-quantity", "1e", "1x", "1.2.3", "1Ki5", "--1",
          "100", "1000000", "1e-3", "10e2147483647", "1e-2147483648",
          "1e2147483648", "166153499473114484112975882535043073Ki",
          "340282366920938463463374607431768211456"}

Integers == {500, 1, 0, -10, 1000}

Comparisons == {"isGreaterThan", "isLessThan", "compareTo"}

Receivers ==
    {Lit(CString("hello world")), Lit(CString("abcabc")),
     Lit(CList(<<CInt(1), CInt(2), CInt(3), CInt(2)>>)),
     Quantity("1Gi"), Semver("2.0.0"), Semver("v1.2"), Lit(CInt(5)),
     Lit(CNull), Lit(CBool(TRUE)), Quantity("abc")}

Arguments ==
    {<< >>, <<Lit(CString("world"))>>, <<Lit(CString("abc"))>>,
     <<Lit(CString("abc")), Lit(CInt(1))>>, <<Lit(CInt(2))>>,
     <<Quantity("500Mi")>>, <<Semver("1.0.0")>>, <<Semver("2")>>,
     <<Quantity("1x")>>}

Calls ==
    {Call(fn, Quantity(a), <<Quantity(b)>>) :
        fn \in Comparisons \cup {"add", "sub"},
        a \in QuantityTexts, b \in QuantityTexts}
    \cup {Call(fn, Quantity(a), <<Lit(CInt(n))>>) :
        fn \in {"add", "sub"}, a \in QuantityTexts, n \in Integers}
    \cup {Call(fn, Quantity(a), << >>) :
        fn \in {"asInteger", "sign"}, a \in ParseTexts}
    \cup {Call("asInteger", Call(fn, Quantity(a), <<Quantity(b)>>), << >>) :
        fn \in {"add", "sub"}, a \in {"1Gi", "1k", "1000"},
        b \in {"512Mi", "200", "1k"}}
    \cup {Call("asInteger", Call(fn, Quantity(a), <<Lit(CInt(n))>>), << >>) :
        fn \in {"add", "sub"}, a \in {"1k", "1000"}, n \in Integers}
    \cup {Call("sign", Call("sub", Quantity(a), <<Quantity(b)>>), << >>) :
        a \in {"1k", "1", "1000"}, b \in {"1k", "2k"}}
    \cup {Call(fn, this, args) :
        fn \in Comparisons \cup {"indexOf", "lastIndexOf"},
        this \in Receivers, args \in Arguments}

InitExtensions ==
    /\ expression \in {Some(c) : c \in Calls}
    /\ overflow_checks \in BOOLEAN
    /\ outcome = None
    /\ displayed = None
    /\ schema = JNull
    /\ object = JNull
    /\ cel = None
    /\ cel_schema = None
    /\ duration = None
    /\ ValidatorIdle

\* Program::execute, under the context of register_all, on an expression
\* whose function is fn
Executed(fn) ==
    /\ expression.some
    /\ expression.val.fn = fn
    /\ outcome = None
    /\ outcome' = Some(Resolve(expression.val, overflow_checks))
    /\ UNCHANGED <<schema, object, old_object, validator_vars, overflow_checks,
                   cel, cel_schema, duration, expression, displayed>>

\* <target>.indexOf(<arguments>)
IndexOf == Executed("indexOf")

\* <target>.lastIndexOf(<arguments>)
LastIndexOf == Executed("lastIndexOf")

\* <target>.isGreaterThan(<arguments>)
IsGreaterThan == Executed("isGreaterThan")

\* <target>.isLessThan(<arguments>)
IsLessThan == Executed("isLessThan")

\* <target>.compareTo(<arguments>)
CompareTo == Executed("compareTo")

\* <target>.add(<arguments>)
Add == Executed("add")

\* <target>.sub(<arguments>)
Sub == Executed("sub")

\* <target>.asInteger(<arguments>)
AsInteger == Executed("asInteger")

\* <target>.sign(<arguments>)
Sign == Executed("sign")

NextExtensions ==
    \/ IndexOf
    \/ LastIndexOf
    \/ IsGreaterThan
    \/ IsLessThan
    \/ CompareTo
    \/ Add
    \/ Sub
    \/ AsInteger
    \/ Sign

SpecExtensions == InitExtensions /\ [][NextExtensions]_vars

----------------------------------------------------------------------------
(* The value of a quantity is mantissa * 10^scale; the claims on the       *)
(* quantity functions compare what an execution returned with that value,  *)
(* computed without a bound on the width of the integers.                  *)

\* The target and the first argument of the expression, resolved
Target == Resolve(expression.val.this.val, overflow_checks)
Argument == Resolve(expression.val.args[1], overflow_checks)

IsQuantity(resolved) ==
    ~resolved.panic /\ resolved.val.ok /\ resolved.val.val.ct = "Quantity"

\* The expression has been executed and is <quantity>.fn(<quantity>) for a
\* function of fns
ExecutedOnQuantities(fns) ==
    /\ outcome.some
    /\ expression.val.fn \in fns
    /\ expression.val.this.some
    /\ Len(expression.val.args) = 1
    /\ IsQuantity(Target)
    /\ IsQuantity(Argument)

\* The integer q / 10^scale, for scale at most q.scale
ExactMantissa(q, scale) ==
    SignedMul(q.mantissa, Signed(FALSE, BigPow10(q.scale - scale)))

\* The sign of a - b: -1, 0 or 1
ExactOrder(a, b) ==
    SignedCmp(ExactMantissa(a, Min(a.scale, b.scale)),
              ExactMantissa(b, Min(a.scale, b.scale)))

\* What a comparison function returns on an order
ComparisonResult(fn, order) ==
    IF fn = "compareTo" THEN CInt(order)
    ELSE IF fn = "isGreaterThan" THEN CBool(order = 1)
    ELSE CBool(order = -1)

\* C21: for every two parsable quantities a and b, compareTo returns -1, 0
\* or 1 as the exact value of a - b is negative, zero or positive, and
\* isGreaterThan and isLessThan return whether it is positive and whether
\* it is negative.
C21_ExactComparison ==
    ExecutedOnQuantities(Comparisons) =>
        outcome.val = Returned(Ok(ComparisonResult(expression.val.fn,
                          ExactOrder(Target.val.val.cv, Argument.val.val.cv))))

\* The expression has been executed and is <quantity>.fn(<quantity or int>)
\* for a function of fns
ExecutedArithmetic(fns) ==
    /\ outcome.some
    /\ expression.val.fn \in fns
    /\ expression.val.this.some
    /\ Len(expression.val.args) = 1
    /\ IsQuantity(Target)
    /\ \/ IsQuantity(Argument)
       \/ ~Argument.panic /\ Argument.val.ok /\ Argument.val.val.ct = "Int"

\* The operand a CEL value stands for: a quantity, or the int n as n * 10^0
Operand(val) ==
    IF val.ct = "Quantity" THEN val.cv ELSE KubeQuantity(I64Of(val.cv), 0)

\* The exact a + b (sub: a - b) as an integer number of 10^scale, scale the
\* finer of the two scales
ExactSum(fn, a, b) ==
    IF fn = "add"
    THEN SignedAdd(ExactMantissa(a, Min(a.scale, b.scale)),
                   ExactMantissa(b, Min(a.scale, b.scale)))
    ELSE SignedSub(ExactMantissa(a, Min(a.scale, b.scale)),
                   ExactMantissa(b, Min(a.scale, b.scale)))

\* res is a returned quantity of the value total * 10^scale
IsExactly(res, total, scale) ==
    /\ ~res.panic
    /\ res.val.ok
    /\ res.val.val.ct = "Quantity"
    /\ res.val.val.cv.scale >= scale
    /\ ExactMantissa(res.val.val.cv, scale) = total

\* C22: for every quantity a and every quantity or int b, a.add(b) returns
\* a quantity whose value is exactly a + b and a.sub(b) one whose value is
\* exactly a - b.
C22_ExactArithmetic ==
    ExecutedArithmetic({"add", "sub"}) =>
        IsExactly(outcome.val,
                  ExactSum(expression.val.fn, Target.val.val.cv,
                           Operand(Argument.val.val)),
                  Min(Target.val.val.cv.scale,
                      Operand(Argument.val.val).scale))

----------------------------------------------------------------------------
(* The canonical form of a quantity.                                       *)

Canonical(q) ==
    \/ q.mantissa = I128Zero /\ q.scale = 0
    \/ q.mantissa # I128Zero /\ DivPow10(q.mantissa.mag, 1).inexact

\* The quantities an executed expression has produced: its target and its
\* argument where they are quantities (parsed, or the result of an inner
\* add or sub), its int argument coerced, and its result
Produced ==
    (IF expression.val.this.some /\ IsQuantity(Target)
     THEN {Target.val.val.cv} ELSE {})
    \cup (IF expression.val.this.some /\ Len(expression.val.args) = 1
             /\ IsQuantity(Argument)
          THEN {Argument.val.val.cv} ELSE {})
    \cup (IF ExecutedArithmetic({"add", "sub"})
             /\ Argument.val.val.ct = "Int"
             /\ ~quantity_or_int(Argument.val.val, expression.val.fn,
                                 overflow_checks).panic
          THEN {quantity_or_int(Argument.val.val, expression.val.fn,
                                overflow_checks).val.val}
          ELSE {})
    \cup (IF IsQuantity(outcome.val) THEN {outcome.val.val.val.cv} ELSE {})

\* C27: every quantity produced by parsing, by add or sub, or by coercing
\* an int has mantissa 0 and scale 0 or a mantissa not divisible by 10, and
\* two such quantities have the same exact value iff their (mantissa,
\* scale) pairs are identical.
C27_CanonicalForm ==
    outcome.some =>
        /\ \A q \in Produced : Canonical(q)
        /\ \A a \in Produced : \A b \in Produced :
               (ExactOrder(a, b) = 0) <=> (a = b)

\* 1k.add(1000) has been executed: the int is coerced to (1, 3) and the sum
\* 2000 is returned as (2, 3)
C27_Witness ==
    /\ ExecutedArithmetic({"add"})
    /\ expression.val = Call("add", Quantity("1k"), <<Lit(CInt(1000))>>)
    /\ IsQuantity(outcome.val)
    /\ outcome.val.val.val.cv = KubeQuantity(Signed(FALSE, BigOf(2)), 3)
    /\ Produced = {KubeQuantity(Signed(FALSE, BigOf(1)), 3),
                   outcome.val.val.val.cv}

----------------------------------------------------------------------------
(* Dispatch of the overloaded names on the runtime type of the receiver.   *)

\* The arguments of the expression, resolved
ResolvedArguments ==
    [i \in 1..Len(expression.val.args) |->
        Resolve(expression.val.args[i], overflow_checks)]

\* The expression has been executed and is a call of fn in fns on a target,
\* whose target and arguments have values
ExecutedOnValues(fns) ==
    /\ outcome.some
    /\ expression.val.fn \in fns
    /\ expression.val.this.some
    /\ ~Target.panic /\ Target.val.ok
    /\ \A i \in 1..Len(expression.val.args) :
           ~ResolvedArguments[i].panic /\ ResolvedArguments[i].val.ok

This == Target.val.val
Args == [i \in 1..Len(expression.val.args) |-> ResolvedArguments[i].val.val]

IsError(res) == ~res.panic /\ ~res.val.ok

\* The two opaque types
Other(ct) == IF ct = "Semver" THEN "Quantity" ELSE "Semver"

\* indexOf and lastIndexOf go to strings.rs for a string and to lists.rs
\* for a list
IndexRouted ==
    ExecutedOnValues({"indexOf", "lastIndexOf"}) =>
        CASE This.ct = "String" ->
                 outcome.val =
                     Returned(IF expression.val.fn = "indexOf"
                              THEN string_index_of(This.cv, Args)
                              ELSE string_last_index_of(This.cv, Args))
          [] This.ct = "List" ->
                 outcome.val =
                     Returned(IF expression.val.fn = "indexOf"
                              THEN list_index_of(This.cv, Args)
                              ELSE list_last_index_of(This.cv, Args))
          [] OTHER -> IsError(outcome.val)

\* The comparisons go to semver_funcs.rs for a Semver and to quantity.rs
\* for a Quantity
ComparisonRouted ==
    ExecutedOnValues(Comparisons) /\ Args # << >> =>
        CASE This.ct = "Semver" ->
                 outcome.val =
                     Returned(semver_compare(This, Args[1], expression.val.fn))
          [] This.ct = "Quantity" ->
                 outcome.val =
                     quantity_compare(This, Args[1], overflow_checks,
                                      expression.val.fn)
          [] OTHER -> IsError(outcome.val)

\* A missing argument and an argument of the other opaque type are errors
ArgumentRejected ==
    /\ ExecutedOnValues(Comparisons \cup {"indexOf", "lastIndexOf"})
           /\ Args = << >>
       => IsError(outcome.val)
    /\ ExecutedOnValues(Comparisons) /\ Args # << >>
           /\ This.ct \in {"Semver", "Quantity"}
           /\ Args[1].ct = Other(This.ct)
       => IsError(outcome.val)

\* The calls of the dispatch tests of lib.rs
DispatchTests ==
    /\ outcome.some
           /\ expression.val = Call("indexOf", Lit(CString("hello world")),
                                    <<Lit(CString("world"))>>)
       => outcome.val = Returned(Ok(CInt(6)))
    /\ outcome.some
           /\ expression.val = Call("lastIndexOf", Lit(CString("abcabc")),
                                    <<Lit(CString("abc"))>>)
       => outcome.val = Returned(Ok(CInt(3)))
    /\ outcome.some
           /\ expression.val =
                  Call("lastIndexOf",
                       Lit(CList(<<CInt(1), CInt(2), CInt(3), CInt(2)>>)),
                       <<Lit(CInt(2))>>)
       => outcome.val = Returned(Ok(CInt(3)))
    /\ outcome.some
           /\ expression.val = Call("isGreaterThan", Semver("2.0.0"),
                                    <<Semver("1.0.0")>>)
       => outcome.val = Returned(Ok(CBool(TRUE)))

\* C28: under the context of register_all, indexOf and lastIndexOf return
\* what the string implementation returns for a string receiver and what
\* the list implementation returns for a list receiver; isGreaterThan,
\* isLessThan and compareTo return what the semver implementation returns
\* for a Semver receiver and what the quantity implementation returns for
\* a Quantity receiver; a receiver of another type, a missing argument and
\* an argument of the other opaque type give an evaluation error.
C28_Dispatch ==
    /\ IndexRouted
    /\ ComparisonRouted
    /\ ArgumentRejected
    /\ DispatchTests

\* semver('2.0.0').compareTo(semver('1.0.0')) has been executed and is 1
C28_Witness ==
    /\ ExecutedOnValues({"compareTo"})
    /\ This.ct = "Semver"
    /\ Args # << >>
    /\ Args[1].ct = "Semver"
    /\ outcome.val = Returned(Ok(CInt(1)))

----------------------------------------------------------------------------
(* impl Display for ValidationError, and a caller that renders the errors  *)
(* a validation returned.                                                  *)

\* The mutant of fmt writes the separator whatever the path
fmt_AlwaysPath(self) == self.field_path \o ": " \o self.message

\* <ValidationError as Display>::fmt
fmt(self) ==
    IF self.field_path = "" THEN self.message
    ELSE self.field_path \o ": " \o self.message

\* ToString::to_string, through Display
to_string(self) == fmt(self)

\* The errors of the display tests, and errors as the validator builds
\* them: at the root, at a member, at an element, with and without a
\* reason, with a message that is empty or holds the separator
DisplayRules == {"self >= 0", "self.replicas >= 0"}
DisplayMessages ==
    {"must be non-negative", "failed rule: self >= 0",
     "rule evaluation error: no such key", "", "spec: nested"}
DisplayPaths ==
    {"", "spec.replicas", "spec", "items[0]", "spec.items[1].name", ": "}
DisplayReasons == {None, Some("FieldValueInvalid")}

DisplayErrors ==
    {ValidationError(rule, message, field_path, reason) :
        rule \in DisplayRules, message \in DisplayMessages,
        field_path \in DisplayPaths, reason \in DisplayReasons}

InitDisplay ==
    /\ errors \in {Some(<<e>>) : e \in DisplayErrors}
                  \cup {Some(<<a, b>>) :
                          a \in {e \in DisplayErrors :
                                    e.rule = "self >= 0" /\ e.reason = None
                                    /\ e.message = "must be non-negative"},
                          b \in {e \in DisplayErrors :
                                    e.rule = "self >= 0" /\ e.reason = None
                                    /\ e.message = "must be non-negative"}}
    /\ displayed = None
    /\ schema = JNull
    /\ object = JNull
    /\ old_object = None
    /\ compiled = None
    /\ evals = << >>
    /\ errors_c = None
    /\ evals_c = << >>
    /\ calls = << >>
    /\ overflow_checks = FALSE
    /\ cel = None
    /\ cel_schema = None
    /\ duration = None
    /\ expression = None
    /\ outcome = None

\* errors.iter().map(|e| e.to_string())
Display ==
    /\ errors.some
    /\ displayed = None
    /\ displayed' = Some([i \in DOMAIN errors.val |-> to_string(errors.val[i])])
    /\ UNCHANGED <<schema, object, old_object, compiled, errors, evals,
                   errors_c, evals_c, calls, overflow_checks, cel, cel_schema,
                   duration, expression, outcome>>

NextDisplay == Display

SpecDisplay == InitDisplay /\ [][NextDisplay]_vars

\* C23: a ValidationError renders as '<fieldPath>: <message>' when its
\* fieldPath is not empty and as '<message>' alone when it is empty.
C23_Display ==
    displayed.some =>
        /\ Len(displayed.val) = Len(errors.val)
        /\ \A i \in DOMAIN errors.val :
               /\ errors.val[i].field_path # ""
                      => displayed.val[i] = errors.val[i].field_path \o ": "
                                                \o errors.val[i].message
               /\ errors.val[i].field_path = ""
                      => displayed.val[i] = errors.val[i].message
        /\ errors.val[1] = ValidationError("self >= 0", "must be non-negative",
                                           "spec.replicas", None)
               => displayed.val[1] = "spec.replicas: must be non-negative"
        /\ errors.val[1] = ValidationError("self >= 0", "must be non-negative",
                                           "", None)
               => displayed.val[1] = "must be non-negative"

\* A root-level error and an error at spec.replicas have been rendered
C23_Witness ==
    /\ displayed.some
    /\ Len(errors.val) = 2
    /\ errors.val[1].field_path = ""
    /\ errors.val[2].field_path = "spec.replicas"
    /\ displayed.val = <<"must be non-negative",
                         "spec.replicas: must be non-negative">>

----------------------------------------------------------------------------
(* Updates whose old object departs from the new one: members that are     *)
(* new, members stored as null, and old values of another kind.            *)

\* Transition rules on a declared property, on its members and on the
\* additional properties
SchemaPrior ==
    Node(<<Props(<<<<"a",
               Node(<<Rules(<<RObjTrans, ROptional>>),
                      Props(<<<<"a", Node(<<Rules(<<RTrans>>)>>)>>>>),
                      <<"additionalProperties",
                        Node(<<Rules(<<RTransFalse, ROptional>>)>>)>>>>)>>>>),
           <<"additionalProperties",
             Node(<<Rules(<<RTrans, ROptionalStrict>>)>>)>>>>)

PriorObjects ==
    {MkObj(<<<<"a", JNum(0)>>, <<"b", JNum(0)>>>>),
     MkObj(<<<<"a", JNum(-1)>>>>),
     MkObj(<<<<"b", JNum(-1)>>>>),
     MkObj(<<<<"a", MkObj(<<<<"a", JNum(0)>>, <<"b", JNum(-1)>>>>)>>>>),
     MkObj(<<<<"a", MkObj(<<<<"a", JNum(-1)>>>>)>>, <<"b", JNum(0)>>>>)}

PriorOldObjects ==
    {JNull, JNum(0), JArr(<<JNum(0)>>), MkObj(<< >>),
     MkObj(<<<<"a", JNum(0)>>>>),
     MkObj(<<<<"a", JNull>>>>),
     MkObj(<<<<"b", JNull>>>>),
     MkObj(<<<<"a", JNum(0)>>, <<"b", JNum(0)>>>>),
     MkObj(<<<<"a", MkObj(<<<<"a", JNum(0)>>>>)>>>>),
     MkObj(<<<<"a", MkObj(<<<<"a", JNull>>, <<"b", JNum(0)>>>>)>>>>),
     MkObj(<<<<"a", MkObj(<< >>)>>>>),
     MkObj(<<<<"a", JArr(<<JNum(0)>>)>>>>),
     MkObj(<<<<"b", MkObj(<<<<"a", JNum(0)>>>>)>>>>)}

\* additionalProperties that is a boolean flag, beside a declared property
SchemaAdditionalFlag ==
    Node(<<Props(<<<<"a", Node(<<Rules(<<RNonNeg>>)>>)>>>>),
           <<"additionalProperties", JBool(TRUE)>>>>)

\* No additionalProperties: only the declared property is walked
SchemaDeclaredOnly ==
    Node(<<Props(<<<<"a", Node(<<Rules(<<RNonNeg, RTrans>>)>>)>>>>)>>)

PriorSchemas ==
    {SchemaPrior, SchemaAdditional, SchemaAdditionalFlag, SchemaDeclaredOnly}

InitPrior ==
    /\ schema \in PriorSchemas
    /\ object \in PriorObjects
    /\ old_object \in {None} \cup {Some(o) : o \in PriorOldObjects}
    /\ compiled = None
    /\ errors = None
    /\ evals = << >>
    /\ errors_c = None
    /\ evals_c = << >>
    /\ calls = << >>
    /\ ValuesIdle

SpecPrior == InitPrior /\ [][Next]_vars

\* The visited positions that are members of an object
MemberPositions ==
    {pos \in VisitedPositions : pos # << >> /\ pos[Len(pos)].idx = -1}

\* The old value at the parent of a position
OldParentOf(pos) == PriorAt(SubSeq(pos, 1, Len(pos) - 1))

HasOldMember(pos) ==
    /\ OldParentOf(pos).some
    /\ OldParentOf(pos).val.t = "obj"
    /\ pos[Len(pos)].key \in DOMAIN OldParentOf(pos).val.v

OldMember(pos) == OldParentOf(pos).val.v[pos[Len(pos)].key]

\* At every member position, a transition rule that does not opt in is
\* executed iff the old value of the parent is an object that holds the
\* key, a stored null included, and every executed transition rule has
\* oldSelf bound to that member, or to null where there is none
MembersMatchedByKey ==
    \A run \in Runs : run.done =>
        \A pos \in MemberPositions : \A rule \in RulesAt(pos) :
            IsTransitionText(rule.rule) =>
                LET ran == EvalsOf(run, rule, Render(pos)) IN
                /\ SkippedRule(rule) => ((ran # {}) <=> HasOldMember(pos))
                /\ \A i \in ran :
                      CelEq(run.evals[i].ctx["oldSelf"],
                            IF HasOldMember(pos)
                            THEN json_to_cel(OldMember(pos)) ELSE CNull)

\* C24 as stated: members are matched by key, and every transition rule at
\* a member position that is new in the object is skipped.
C24_AsStated ==
    /\ MembersMatchedByKey
    /\ \A run \in Runs : run.done =>
          \A pos \in MemberPositions : \A rule \in RulesAt(pos) :
              (IsTransitionText(rule.rule) /\ ~HasOldMember(pos)) =>
                  EvalsOf(run, rule, Render(pos)) = {}

\* C24: when a declared property or an additional-property key k is
\* walked, the prior value passed to the child is old[k] exactly when the
\* prior value at the parent is an object that holds k (a stored null is an
\* available prior value), and is absent otherwise; hence at a position
\* that is new in the object a transition rule without optionalOldSelf =
\* true is skipped although a root old object was supplied, and one with
\* optionalOldSelf = true is executed with oldSelf bound to null.
C24_PriorMatchedByKey ==
    /\ MembersMatchedByKey
    /\ \A run \in Runs : run.done =>
          \A pos \in MemberPositions : \A rule \in RulesAt(pos) :
              OptionalRule(rule) => EvalsOf(run, rule, Render(pos)) # {}

\* Both calls have run on an update where one member has null for its old
\* value, where its rule ran with oldSelf = null, and another member is new
\* under an old parent that is an object, where the rule that does not opt
\* in was skipped
C24_Witness ==
    /\ errors.some /\ errors_c.some
    /\ old_object.some
    /\ \E pos \in MemberPositions : \E rule \in RulesAt(pos) :
          /\ SkippedRule(rule)
          /\ HasOldMember(pos)
          /\ OldMember(pos) = JNull
          /\ \A run \in Runs : EvalsOf(run, rule, Render(pos)) # {}
    /\ \E pos \in MemberPositions : \E rule \in RulesAt(pos) :
          /\ SkippedRule(rule)
          /\ ~HasOldMember(pos)
          /\ OldParentOf(pos).some
          /\ \A run \in Runs : EvalsOf(run, rule, Render(pos)) = {}

----------------------------------------------------------------------------
(* C25: one child schema per key.                                          *)

\* The entries of the node of a position that deserialize to a rule
EntriesFor(pos, rule) ==
    {i \in DOMAIN EntriesAt(pos) :
        DeserializeRule(EntriesAt(pos)[i]) = Ok(rule)}

\* The executions and the errors of a run at a path
RanAt(run, path) == {i \in DOMAIN run.evals : run.evals[i].path = path}
ReportedAt(run, path) ==
    {i \in DOMAIN run.errors : run.errors[i].field_path = path}

\* The child schema the claim gives a key of an object: the declared
\* property, else additionalProperties where that is an object
ChildSchema(sch, key) ==
    IF Get(sch, "properties").some /\ Get(sch, "properties").val.t = "obj"
          /\ key \in DOMAIN Get(sch, "properties").val.v
    THEN Some(Get(sch, "properties").val.v[key])
    ELSE IF Get(sch, "additionalProperties").some
               /\ Get(sch, "additionalProperties").val.t = "obj"
    THEN Get(sch, "additionalProperties")
    ELSE None

\* The members of the object below a visited parent
MembersOfVisited ==
    {pos \in PositionsOf(object) :
        /\ pos # << >>
        /\ pos[Len(pos)].idx = -1
        /\ SubSeq(pos, 1, Len(pos) - 1) \in VisitedPositions}

\* The rules of a schema node
RulesOf(node) ==
    {DeserializeRule(EntriesOf(node)[i]).val :
        i \in {j \in DOMAIN EntriesOf(node) :
                  DeserializeRule(EntriesOf(node)[j]).ok}}

\* C25: a key of the object that is declared under properties is walked
\* with the schema of that property and never with additionalProperties;
\* a key that is not declared is walked with additionalProperties iff that
\* is an object, and is not walked otherwise; no rule is executed twice at
\* one position in one validation call.
C25_OneChildSchemaPerKey ==
    \A run \in Runs : run.done =>
        /\ \A pos \in MembersOfVisited :
              LET parent == SchemaAt(schema, SubSeq(pos, 1, Len(pos) - 1)).val
                  child == ChildSchema(parent, pos[Len(pos)].key)
              IN  IF child.some
                  THEN /\ \A i \in RanAt(run, Render(pos)) :
                             run.evals[i].rule \in RulesOf(child.val)
                       /\ \A rule \in RulesOf(child.val) :
                             ~SkippedRule(rule) =>
                                 EvalsOf(run, rule, Render(pos)) # {}
                  ELSE /\ RanAt(run, Render(pos)) = {}
                       /\ ReportedAt(run, Render(pos)) = {}
        /\ \A pos \in VisitedPositions : \A rule \in RulesAt(pos) :
              Cardinality(EvalsOf(run, rule, Render(pos)))
                  <= Cardinality(EntriesFor(pos, rule))

\* Both calls have run on an object with a declared and an undeclared key
\* under a schema whose additionalProperties is an object: the rule of the
\* property ran once at the declared key and the opted-in rule of
\* additionalProperties once at the other key
C25_Witness ==
    /\ errors.some /\ errors_c.some
    /\ schema = SchemaAdditional
    /\ DOMAIN object.v = {"a", "b"}
    /\ \A run \in Runs :
          /\ Cardinality(RanAt(run, "a")) = 1
          /\ \A i \in RanAt(run, "a") : run.evals[i].rule.rule = "self >= 0"
          /\ \E i \in RanAt(run, "b") : OptionalRule(run.evals[i].rule)

----------------------------------------------------------------------------
(* C26: the schema-aware conversion follows the path of the value.         *)

\* The schema node reached from the root by the path of a position: the
\* named property, else additionalProperties that is an object, for a
\* member; items for an element; none once a step finds nothing
RECURSIVE ContextAt(_, _)
ContextAt(sch, pos) ==
    IF pos = << >> THEN Some(sch)
    ELSE IF Head(pos).idx # -1
    THEN IF Get(sch, "items").some
         THEN ContextAt(Get(sch, "items").val, Tail(pos)) ELSE None
    ELSE IF Get(sch, "properties").some
               /\ Get(Get(sch, "properties").val, Head(pos).key).some
    THEN ContextAt(Get(Get(sch, "properties").val, Head(pos).key).val,
                   Tail(pos))
    ELSE IF Get(sch, "additionalProperties").some
               /\ Get(sch, "additionalProperties").val.t = "obj"
    THEN ContextAt(Get(sch, "additionalProperties").val, Tail(pos))
    ELSE None

\* The format the node at a position declares, "None" without a node
DeclaredFormat(pos) ==
    IF ContextAt(schema, pos).some
    THEN from_schema(ContextAt(schema, pos).val) ELSE "None"

\* The converted value at a position of the converted document
RECURSIVE CelAt(_, _)
CelAt(c, pos) ==
    IF pos = << >> THEN c
    ELSE IF Head(pos).idx # -1 THEN CelAt(c.cv[Head(pos).idx + 1], Tail(pos))
    ELSE CelAt(c.cv[Head(pos).key], Tail(pos))

StringPositions == {pos \in PositionsOf(object) : ValueAt(object, pos).val.t = "str"}

----------------------------------------------------------------------------
(* Rule entries that do not compile, under items.                          *)

\* An expression that does not parse and mentions oldSelf
RUnparsableOld == MkObj(<<<<"rule", JStr("self >= oldSelf +")>>,
                          <<"message", JStr("unused")>>>>)

\* The items of an array member, and the items of the root
SchemaUncompiledItems ==
    Node(<<Props(<<<<"a",
        Node(<<<<"items", Node(<<Rules(<<RUnparsableOld, RNoRule,
                                          RTrans>>)>>)>>>>)>>>>)>>)
SchemaUncompiledRoot ==
    Node(<<<<"items", Node(<<Rules(<<RTrans, RUnparsableOld>>)>>)>>>>)

InitUncompiled ==
    /\ schema \in {SchemaUncompiledItems, SchemaUncompiledRoot}
    /\ object \in {o \in Objects : Fits(schema, o)}
    /\ old_object \in {None} \cup {Some(o) : o \in OldFor(object)}
    /\ compiled = None
    /\ errors = None
    /\ evals = << >>
    /\ errors_c = None
    /\ evals_c = << >>
    /\ calls = << >>
    /\ ValuesIdle

SpecUncompiled == InitUncompiled /\ [][Next]_vars

\* The entries of the node of a position that do not compile
UncompiledAt(pos) ==
    {k \in DOMAIN EntriesAt(pos) : OutcomeKind(EntriesAt(pos)[k], pos) \in NotCompiled}

IsCompileError(e) ==
    /\ ~e.reason.some
    /\ \/ StartsWith(e.message, "failed to compile rule")
       \/ StartsWith(e.message, "invalid rule definition")

\* The compilation errors a run reports at a path
CompileErrorsAt(run, path) ==
    {i \in DOMAIN run.errors :
        run.errors[i].field_path = path /\ IsCompileError(run.errors[i])}

\* C29: in every validation call, with or without an old object, each
\* visited position has one compilation error for each entry of its schema
\* node that does not compile, whatever the value at the position and
\* whether or not the expression mentions oldSelf, and no compilation
\* error is reported at any other path: under items there is one per
\* element, at [0], [1], ..., and none for an empty array or an absent
\* field.
C29_CompileErrorPerVisit ==
    \A run \in Runs : run.done =>
        /\ \A pos \in VisitedPositions :
              Cardinality(CompileErrorsAt(run, Render(pos)))
                  = Cardinality(UncompiledAt(pos))
        /\ \A i \in DOMAIN run.errors :
              IsCompileError(run.errors[i]) =>
                  \E pos \in VisitedPositions :
                      /\ Render(pos) = run.errors[i].field_path
                      /\ UncompiledAt(pos) # {}
        /\ \A pos \in VisitedPositions : \A k \in UncompiledAt(pos) :
              OutcomeKind(EntriesAt(pos)[k], pos) = "parse" =>
                  \E i \in CompileErrorsAt(run, Render(pos)) :
                      run.errors[i].rule =
                          ExpressionTextOf(EntriesAt(pos)[k]).val

\* Both calls have run on create over a root array of two elements: the
\* expression that mentions oldSelf and does not parse is reported at [0]
\* and at [1], and nowhere else is anything reported
C29_Witness ==
    /\ errors.some /\ errors_c.some
    /\ ~old_object.some
    /\ schema = SchemaUncompiledRoot
    /\ object.t = "arr" /\ Len(object.v) = 2
    /\ \A run \in Runs :
          /\ Len(run.errors) = 2
          /\ run.errors[1].field_path = "[0]"
          /\ run.errors[2].field_path = "[1]"
          /\ \A i \in 1..2 : run.errors[i].rule = "self >= oldSelf +"

----------------------------------------------------------------------------
(* C30: the accumulation of parse_go_duration within i64.                  *)

\* The exact total of a string of the grammar lies in the range of i64
ExactTotalInRange(input) ==
    GrammarDuration(input).kind = "Some" /\ InI64(GrammarDuration(input).nanos)

\* C30: parse_go_duration never panics; a string it accepts has an exact
\* total within the range of i64; a string of the grammar whose exact
\* total is outside the range of i64 is rejected.  (That the duration
\* returned is the exact total is the statement of C20.)
C30_NeverOverflows ==
    duration.some =>
        /\ duration.val.kind # "panic"
        /\ duration.val.kind = "Some" => ExactTotalInRange(object.v)
        /\ (GrammarDuration(object.v).kind = "Some"
               /\ ~InI64(GrammarDuration(object.v).nanos))
              => duration.val.kind = "None"

====
